---- MODULE Spec2Model ----
(***************************************************************************)
(* Entity resolution and relationship ingest of the knowledge-graph store  *)
(* (backend/app/rag/knowledge_graph/graph_store/tidb_graph_store.py).      *)
(*                                                                         *)
(* The store is two tables, entities and relationships, holding the        *)
(* committed rows.  Every worker owns one SQLAlchemy session: rows added   *)
(* with session.add() are pending until ANY session.commit() of that       *)
(* session, which makes all of them durable at once.                       *)
(***************************************************************************)
EXTENDS Integers, Sequences, FiniteSets, TLC

VARIABLES
    entities,       \* committed rows of table entities; the id of a row is its index
    relationships,  \* committed rows of table relationships; the id is the index
    active,         \* the workers that issue calls in this run
    budget,         \* top-level calls that may still be started
    pc,             \* per worker: position in save / get_or_create_entity
    arg,            \* per worker: argument of the running top-level call
    idx,            \* per worker: loop index over entities_df / relationships_df
    entities_name_map, \* per worker: save's name -> list of resolved entity ids
    src_ent,        \* per worker: source entity bound for the current relationship row
    pending,        \* per worker: relationship rows added to the session, not committed
    result,         \* per worker: what the lookup query of get_or_create_entity returned
    start,          \* per worker: table sizes when the running top-level call began
    prevRes,        \* the get_or_create_entity invocation completed before lastRes
    lastRes,        \* the most recently completed get_or_create_entity invocation
    prevOp,         \* the top-level call completed before lastOp
    lastOp,         \* the most recently completed top-level call
    batch,          \* the entities_df and relationships_df given to save in this run
    out,            \* the most recently completed retrieve_with_weight or search call
    pg_indexes,     \* committed rows of the catalog view pg_indexes
    ddl,            \* the most recently completed create_vector_index call
    celery,         \* the index statuses, the queued task messages and the last run
    purge           \* the documents table and the running purge task

vars == <<entities, relationships, active, budget, pc, arg, idx, entities_name_map,
          src_ent, pending, result, start, prevRes, lastRes, prevOp, lastOp,
          batch, out, pg_indexes, ddl, celery, purge>>

\* what the ingest operations neither read nor write, except the batch they read
aux == <<batch, out, pg_indexes, ddl, celery, purge>>

----------------------------------------------------------------------------
(* Bounds of the model *)

\* top-level calls (save or get_or_create_entity) a single writer issues
MaxCalls == 3
\* top-level calls of the writer of the ingest-then-retrieve scenario
ScenarioCalls == 2
\* calls made to the index adaptor
MaxIndexCalls == 3
\* top-level calls of the writer of the runs with empty frames
BatchCalls == 2
\* top-level calls of the writer of the runs with a purge
PurgeCalls == 2
\* runs of purge_datasource_related_resources
MaxPurges == 1
Workers == {"w1", "w2"}

----------------------------------------------------------------------------
(* Values *)

Names == {"X", "Y", "Z"}
\* "" is the description _to_df gives an endpoint that was not declared as an entity
Descriptions == {"d1", "d2", "d3", ""}
PlaceholderMeta == "need-revised"
Metas == {"m1", "m2", PlaceholderMeta}

\* description_similarity_threshold = 0.9, in percent
SimilarityThresholdPct == 90

\* The embedding model: a fixed vector per text.  d1 and d2 are paraphrases
\* (cosine similarity 0.995), d3 and "" are unrelated to them and to each other.
EmbedText(d) ==
    CASE d = "d1" -> <<10, 0>>
      [] d = "d2" -> <<10, 1>>
      [] d = "d3" -> <<0, 10>>
      [] OTHER    -> <<7, 7>>

\* get_entity_description_embedding(name, description, embed_model): the text
\* embedded is built from the name and the description.
get_entity_description_embedding(name, description) ==
    LET v == EmbedText(description)
    IN  IF name = "X" THEN v ELSE <<v[1] + 1, v[2] + 1>>

Dot(a, b) == a[1] * b[1] + a[2] * b[2]
\* x*|x|: ordering signed cosines by their signed squares avoids square roots
SignedSquare(x) == IF x >= 0 THEN x * x ELSE 0 - (x * x)

\* cosine_distance(v1, v2) < 1 - pct/100, i.e. dot/(|v1||v2|) > pct/100
cosine_distance_below(v1, v2, pct) ==
    10000 * SignedSquare(Dot(v1, v2)) > pct * pct * Dot(v1, v1) * Dot(v2, v2)

\* cosine_distance(a, q) < cosine_distance(b, q)
cosine_distance_less(a, b, q) ==
    SignedSquare(Dot(a, q)) * Dot(b, b) > SignedSquare(Dot(b, q)) * Dot(a, a)

\* self.description_cosine_distance_threshold = 1 - description_similarity_threshold
below_description_threshold(v1, v2) ==
    cosine_distance_below(v1, v2, SimilarityThresholdPct)

----------------------------------------------------------------------------
(* Candidate entities, chunk ids and the batch the extractor produces *)

\* schema.Entity / SynopsisEntity given to get_or_create_entity
Draft(name, description, metadata, kind) ==
    [name |-> name, description |-> description, metadata |-> metadata, kind |-> kind]

\* candidates of direct get_or_create_entity calls: an entity, the same
\* description with other metadata, a paraphrase, an unrelated description,
\* two Synopsis candidates, and an entity Z declared with an empty description
Drafts ==
    { Draft("X", "d1", "m1", "original"), Draft("X", "d1", "m2", "original"),
      Draft("X", "d2", "m1", "original"), Draft("X", "d3", "m1", "original"),
      Draft("X", "d1", "m1", "synopsis"), Draft("X", "d2", "m1", "synopsis"),
      Draft("Z", "", "m1", "original") }

\* A chunk id as it is stored in the JSON column meta: a JSON string (a node
\* id, a UUID) or a JSON number; text is str(chunk_id).
ChunkIds == { [type |-> "str", text |-> "c1"], [type |-> "int", text |-> "7"] }

\* a key that the metadata of a node does not have
AbsentKey == [type |-> "", text |-> ""]

\* relationship_meatadata.get("document_id") of a metadata without that key: None
NoDocument == 0

\* The batch of the ingest runs.  entities_df: rows name, description, meta.
\* relationships_df: Z is an endpoint that was not declared as an entity, so
\* _to_df gives it the description ""; doc_id is the "doc_id" key of the node's
\* metadata, which get_relation_metadata_from_node copies when the node has it,
\* and document_id its "document_id" key.
StandardBatch ==
    [entities |->
        << [name |-> "X", description |-> "d1", meta |-> "m1"],
           [name |-> "Y", description |-> "d1", meta |-> "m1"] >>,
     relationships |->
        << [source_entity |-> "X", source_entity_description |-> "d1",
            target_entity |-> "Y", target_entity_description |-> "d1",
            relationship_desc |-> "r1", doc_id |-> AbsentKey,
            document_id |-> 1],
           [source_entity |-> "X", source_entity_description |-> "d1",
            target_entity |-> "Z", target_entity_description |-> "",
            relationship_desc |-> "r2", doc_id |-> AbsentKey,
            document_id |-> 1] >>]

\* the batch of the ingest-then-retrieve scenario: entities X and Y and the one
\* relationship X -uses-> Y, the node's metadata carrying doc_id or not
ScenarioBatch(doc_id) ==
    [entities |->
        << [name |-> "X", description |-> "d1", meta |-> "m1"],
           [name |-> "Y", description |-> "d1", meta |-> "m1"] >>,
     relationships |->
        << [source_entity |-> "X", source_entity_description |-> "d1",
            target_entity |-> "Y", target_entity_description |-> "d1",
            relationship_desc |-> "uses", doc_id |-> doc_id,
            document_id |-> NoDocument] >>]

\* batches with an empty frame: no entity, no relationship, or neither
NoEntitiesBatch == [StandardBatch EXCEPT !.entities = << >>]
NoRelationshipsBatch == [StandardBatch EXCEPT !.relationships = << >>]
EmptyBatch == [entities |-> << >>, relationships |-> << >>]

\* entities_df and relationships_df of the running save
BatchEntities == batch.entities
BatchRelationships == batch.relationships

\* the first test of save with only entities_df.empty tested
frames_empty_entities_only(entities_df, relationships_df) == Len(entities_df) = 0

\* entities_df.empty or relationships_df.empty
frames_empty(entities_df, relationships_df) ==
    Len(entities_df) = 0 \/ Len(relationships_df) = 0

\* what the merge program may answer: no merged entity, an exception of the
\* language-model call, or a merged entity (a paraphrase of d1, or a text
\* unrelated to both inputs)
NotAsked == [kind |-> "not-asked", description |-> "", metadata |-> ""]
MergeOutcomes ==
    { [kind |-> "none", description |-> "", metadata |-> ""],
      [kind |-> "raise", description |-> "", metadata |-> ""],
      [kind |-> "merged", description |-> "d2", metadata |-> "m2"],
      [kind |-> "merged", description |-> "d3", metadata |-> "m2"] }

----------------------------------------------------------------------------
(* get_or_create_entity *)

NoRow == [name |-> "", description |-> "", description_vec |-> <<0, 0>>,
          meta |-> "", entity_type |-> ""]
NotQueried == [id |-> 0 - 1, row |-> NoRow, below |-> FALSE]
NoResult == [id |-> 0, row |-> NoRow, below |-> FALSE]

\* matching without the entity_type filter
matching_any_kind(ents, entity) ==
    { i \in 1..Len(ents) : ents[i].name = entity.name }

\* the rows the lookup query filters in: same name, same entity_type
matching(ents, entity) ==
    { i \in 1..Len(ents) : /\ ents[i].name = entity.name
                           /\ ents[i].entity_type = entity.kind }

\* the rows .order_by(asc(distance)).first() may return: SQL leaves the order of
\* rows at equal distance unspecified
nearest(ents, entity) ==
    LET q == get_entity_description_embedding(entity.name, entity.description)
        M == matching(ents, entity)
    IN  { i \in M : \A j \in M :
            ~cosine_distance_less(ents[j].description_vec, ents[i].description_vec, q) }

\* result for a returned row i: the row and whether result[1] is below the threshold
query_result(ents, entity, i) ==
    [id |-> i, row |-> ents[i],
     below |-> below_description_threshold(
                  ents[i].description_vec,
                  get_entity_description_embedding(entity.name, entity.description))]

\* is_true_duplicate with the metadata test inverted (DeepDiff non-empty)
is_true_duplicate_inverted_meta(db_obj, entity) ==
    /\ db_obj.description = entity.description
    /\ db_obj.name = entity.name
    /\ db_obj.meta # entity.metadata

\* the three-way comparison that makes a match a true duplicate
is_true_duplicate(db_obj, entity) ==
    /\ db_obj.description = entity.description
    /\ db_obj.name = entity.name
    /\ db_obj.meta = entity.metadata

\* close_match without the distance test
close_match_any_distance(res) == res.id > 0

\* the nearest row exists and result[1] is below the threshold
close_match(res) == res.id > 0 /\ res.below

\* asks_merge with the entity type test inverted
asks_merge_synopsis_only(res, entity) ==
    /\ res.id > 0 /\ res.below
    /\ ~(/\ res.row.description = entity.description
         /\ res.row.name = entity.name
         /\ res.row.meta = entity.metadata)
    /\ entity.kind = "synopsis"

\* the elif branch: the merge program is called
asks_merge(res, entity) ==
    /\ close_match(res)
    /\ ~is_true_duplicate(res.row, entity)
    /\ entity.kind = "original"

\* _try_merge_entities returns pred.merged_entity; an exception of the program
\* is not caught here
try_merge_entities(outcome) ==
    IF outcome.kind = "raise" THEN "raise"
    ELSE IF outcome.kind = "merged" THEN "merged"
    ELSE "none"

\* merged_row without the assignment of the merged metadata
merged_row_keep_meta(row, db_obj, merged) ==
    [row EXCEPT !.description = merged.description,
                !.description_vec =
                    get_entity_description_embedding(db_obj.name, merged.description)]

\* the row after a merge: description and meta replaced, both vectors re-embedded
merged_row(row, db_obj, merged) ==
    [row EXCEPT !.description = merged.description,
                !.meta = merged.metadata,
                !.description_vec =
                    get_entity_description_embedding(db_obj.name, merged.description)]

\* DBEntity(...) built from the candidate
new_row(entity) ==
    [name |-> entity.name, description |-> entity.description,
     description_vec |-> get_entity_description_embedding(entity.name, entity.description),
     meta |-> entity.metadata, entity_type |-> entity.kind]

\* get_or_create_entity returning the nearest match when the merge program
\* answers no merged entity, instead of falling through to the insert
get_or_create_entity_keep_on_decline(ents, entity, res, outcome) ==
    LET close == res.id > 0 /\ res.below
        same == /\ res.row.description = entity.description
                /\ res.row.name = entity.name
                /\ res.row.meta = entity.metadata
        asks == close /\ ~same /\ entity.kind = "original"
    IN  IF close /\ same
        THEN [ents |-> ents, ret |-> res.id, how |-> "duplicate", commits |-> FALSE]
        ELSE IF asks /\ outcome.kind = "raise"
        THEN [ents |-> ents, ret |-> 0, how |-> "raise", commits |-> FALSE]
        ELSE IF asks /\ outcome.kind = "merged"
        THEN [ents |-> [ents EXCEPT ![res.id] =
                          [@ EXCEPT !.description = outcome.description,
                                    !.meta = outcome.metadata,
                                    !.description_vec =
                                        get_entity_description_embedding(
                                            res.row.name, outcome.description)]],
              ret |-> res.id, how |-> "merged", commits |-> TRUE]
        ELSE IF asks
        THEN [ents |-> ents, ret |-> res.id, how |-> "kept", commits |-> FALSE]
        ELSE [ents |-> Append(ents,
                          [name |-> entity.name, description |-> entity.description,
                           description_vec |-> get_entity_description_embedding(
                                                   entity.name, entity.description),
                           meta |-> entity.metadata, entity_type |-> entity.kind]),
              ret |-> Len(ents) + 1, how |-> "created", commits |-> TRUE]

\* The part of get_or_create_entity after the lookup.  how is "duplicate",
\* "raise", "merged" or "created"; commits tells whether session.commit() ran.
get_or_create_entity(ents, entity, res, outcome) ==
    IF close_match(res) /\ is_true_duplicate(res.row, entity)
    THEN [ents |-> ents, ret |-> res.id, how |-> "duplicate", commits |-> FALSE]
    ELSE IF asks_merge(res, entity) /\ try_merge_entities(outcome) = "raise"
    THEN [ents |-> ents, ret |-> 0, how |-> "raise", commits |-> FALSE]
    ELSE IF asks_merge(res, entity) /\ try_merge_entities(outcome) = "merged"
    THEN [ents |-> [ents EXCEPT ![res.id] = merged_row(@, res.row, outcome)],
          ret |-> res.id, how |-> "merged", commits |-> TRUE]
    ELSE [ents |-> Append(ents, new_row(entity)), ret |-> Len(ents) + 1,
          how |-> "created", commits |-> TRUE]

----------------------------------------------------------------------------
(* save and create_relationship *)

\* str(chunk_id)
str(chunk_id) == chunk_id.text

\* cast(DBRelationship.meta["chunk_id"], String): the JSON element rendered as
\* text, which for a JSON string keeps its double quotes
cast_json_string(json) ==
    IF json.type = "str" THEN "\"" \o json.text \o "\"" ELSE json.text

\* the idempotency guard: some relationship visible to the session carries the chunk id
chunk_already_saved(rows, chunk_id) ==
    \E k \in 1..Len(rows) : cast_json_string(rows[k].chunk_id) = str(chunk_id)

\* the weight of a row that create_relationship inserts without giving one
DefaultWeight == 0

\* get_relationship_description_embedding: a fixed vector per relationship text
get_relationship_description_embedding(relationship_desc) ==
    CASE relationship_desc = "r1" -> <<4, 3>>
      [] relationship_desc = "r2" -> <<3, 4>>
      [] OTHER                    -> <<5, 0>>

\* create_relationship reading the target's id before the object has one
create_relationship_no_target_id(source_entity, target_entity, rel, chunk_id) ==
    [source_entity_id |-> source_entity, target_entity_id |-> 0,
     description |-> rel.relationship_desc, chunk_id |-> chunk_id,
     doc_id |-> rel.doc_id, weight |-> 0, document_id |-> rel.document_id,
     description_vec |-> <<5, 0>>]

\* create_relationship without the document_id and chunk_id columns filled
create_relationship_no_provenance(source_entity, target_entity, rel, chunk_id) ==
    [source_entity_id |-> source_entity, target_entity_id |-> target_entity,
     description |-> rel.relationship_desc, chunk_id |-> [type |-> "", text |-> ""],
     doc_id |-> rel.doc_id, weight |-> 0, document_id |-> 0,
     description_vec |-> <<5, 0>>]

\* the DBRelationship that create_relationship adds to the session; chunk_id is
\* relationship_meatadata.get("chunk_id"), which the extractor sets to the node
\* id; doc_id is meta["doc_id"], present only when the node's metadata has it
create_relationship(source_entity, target_entity, rel, chunk_id) ==
    [source_entity_id |-> source_entity, target_entity_id |-> target_entity,
     description |-> rel.relationship_desc, chunk_id |-> chunk_id,
     doc_id |-> rel.doc_id, weight |-> DefaultWeight,
     document_id |-> rel.document_id,
     description_vec |-> get_relationship_description_embedding(rel.relationship_desc)]

\* a commit that drops a pending row when a committed row already has its
\* chunk id and description (as under a unique constraint)
commit_unique(rows, staged) ==
    rows \o SelectSeq(staged, LAMBDA r :
                ~\E k \in 1..Len(rows) : /\ rows[k].chunk_id = r.chunk_id
                                         /\ rows[k].description = r.description)

\* session.commit(): every pending row of the session becomes durable
commit(rows, staged) == rows \o staged

\* the rows a query of the session sees: the committed ones and, after the
\* autoflush, its own pending ones
visible(rows, staged) == rows \o staged

\* the loop of _find_or_create_entity_for_relation over entities_name_map:
\* the first entity of that name within the threshold, 0 when there is none
find_in_batch(ents, name_map, name, description) ==
    LET S == name_map[name]
        e == get_entity_description_embedding(name, description)
        hits == { k \in 1..Len(S) :
                    below_description_threshold(ents[S[k]].description_vec, e) }
    IN  IF hits = {} THEN 0
        ELSE S[CHOOSE k \in hits : \A m \in hits : k <= m]

----------------------------------------------------------------------------
(* search_relationships_weight and fetch_entity_degrees *)

\* the norm of the relationship and query embeddings of the model
EmbeddingNorm == 5

\* func.cosine_distance(v1, v2) = 1 - dot/(|v1||v2|) in percent.  Every
\* relationship and query embedding of the model has norm 5, so the distances
\* are whole percents (multiples of 4) and comparing percents is exact.
cosine_distance_pct(v1, v2) ==
    (100 * (EmbeddingNorm * EmbeddingNorm - Dot(v1, v2)))
        \div (EmbeddingNorm * EmbeddingNorm)

\* distance_range = (0.0, 1.0), limit = 100 and rank_n = 10: the defaults
FullRange == [lo |-> 0, hi |-> 100]
DefaultLimit == 100
DefaultRankN == 10

\* SQL leaves the order of rows of equal distance unspecified: the database
\* returns them by ascending or by descending id
TieOrders == {"asc", "desc"}
tie_before(tie, j, k) == IF tie = "asc" THEN j < k ELSE j > k

\* The session's transaction: the statements executed in it so far and whether
\* one of them failed.
NewSession == [n |-> 0, failed |-> FALSE]

\* execute on a session in autocommit: a failed statement leaves the next alone
execute_autocommit(ses, fail) ==
    [n |-> ses.n + 1, failed |-> fail = ses.n + 1]

\* session.execute / session.query(...).all(): statement number ses.n + 1 raises
\* when it is the failing one, and also when an earlier statement of the
\* transaction failed (the transaction is aborted until it is rolled back; the
\* engine is created without autocommit and nothing here rolls back)
execute(ses, fail) ==
    [n |-> ses.n + 1, failed |-> ses.failed \/ fail = ses.n + 1]

\* the grouped counts of fetch_entity_degrees
count_by(rels, field, e) ==
    Cardinality({ k \in 1..Len(rels) : rels[k][field] = e })

\* fetch_entity_degrees: both grouped-count queries run inside one try block
\* whose except clause only logs, so a failing query leaves the degrees it did
\* not set at 0 and the dictionary is returned all the same
fetch_entity_degrees(rels, entity_ids, ses, fail) ==
    LET s1 == execute(ses, fail)
        s2 == execute(s1, fail)
        out_ok == ~s1.failed
        in_ok == out_ok /\ ~s2.failed
    IN  [degrees |-> [e \in entity_ids |->
                        [in_degree |-> IF in_ok
                                       THEN count_by(rels, "target_entity_id", e)
                                       ELSE 0,
                         out_degree |-> IF out_ok
                                        THEN count_by(rels, "source_entity_id", e)
                                        ELSE 0]],
         ses |-> IF out_ok THEN s2 ELSE s1,
         swallowed |-> ~in_ok]

\* get_weight_score: the piecewise weight coefficient table, two units per unit
\* of weight up to 2 and one unit beyond
get_weight_score(weight) ==
    IF weight <= 2 THEN 2 * weight ELSE 4 + (weight - 2)

\* calculate_relationship_score: non-increasing in the embedding distance,
\* non-decreasing in the weight and, when with_degree, in both degrees
calculate_relationship_score(embedding_distance, weight, in_degree, out_degree, with_degree) ==
    (200 - embedding_distance) + get_weight_score(weight)
        + (IF with_degree THEN in_degree + out_degree ELSE 0)

\* final_score with the weight passed negated
final_score_negated_weight(rels, k, embedding_distance, degrees, with_degree) ==
    (200 - embedding_distance) - (2 * rels[k].weight)
        + (IF with_degree
           THEN degrees[rels[k].source_entity_id].in_degree
                    + degrees[rels[k].target_entity_id].out_degree
           ELSE 0)

\* the score of candidate k: the in-degree of its source and the out-degree of
\* its target are read from degrees, or are 0 without with_degree
final_score(rels, k, embedding_distance, degrees, with_degree) ==
    calculate_relationship_score(
        embedding_distance, rels[k].weight,
        IF with_degree THEN degrees[rels[k].source_entity_id].in_degree ELSE 0,
        IF with_degree THEN degrees[rels[k].target_entity_id].out_degree ELSE 0,
        with_degree)

\* .limit(limit * 10) of the subquery
SubqueryFactor == 10

\* the subquery: the limit * 10 relationships nearest to the embedding, taken
\* before any filter
subquery_rows(rels, dist, tie, limit) ==
    { k \in 1..Len(rels) :
        Cardinality({ j \in 1..Len(rels) :
                        \/ dist[j] < dist[k]
                        \/ dist[j] = dist[k] /\ tie_before(tie, j, k) })
            < limit * SubqueryFactor }

\* the rows of the subquery that pass the filters stated on relationships_alias:
\* weight >= 0 and, unless the range is the default, the distance range
alias_rows(rels, dist, tie, limit, distance_range) ==
    { k \in subquery_rows(rels, dist, tie, limit) :
        /\ rels[k].weight >= 0
        /\ \/ distance_range = FullRange
           \/ dist[k] >= distance_range.lo /\ dist[k] <= distance_range.hi }

\* The visited filters are stated on DBRelationship, not on relationships_alias:
\* they bring the table relationships itself into the FROM clause, and the query
\* is the product of the alias rows with the table rows that pass them.  0
\* stands for the single empty factor when neither filter is stated.
base_rows(rels, visited_relationships, visited_entities) ==
    IF visited_relationships = {} /\ visited_entities = {}
    THEN {0}
    ELSE { b \in 1..Len(rels) :
            /\ visited_relationships = {} \/ b \notin visited_relationships
            /\ visited_entities = {}
                  \/ rels[b].source_entity_id \in visited_entities }

\* order_by(asc(embedding_distance)) on the rows of the product
row_before(dist, tie, x, y) ==
    \/ dist[x[1]] < dist[y[1]]
    \/ /\ dist[x[1]] = dist[y[1]]
       /\ \/ tie_before(tie, x[1], y[1])
          \/ x[1] = y[1] /\ tie_before(tie, x[2], y[2])

\* .limit(limit): the first limit rows in the order of the query
first_rows(rows, dist, tie, limit) ==
    IF Cardinality(rows) <= limit
    THEN rows
    ELSE { x \in rows :
            Cardinality({ y \in rows : row_before(dist, tie, y, x) }) < limit }

\* session.execute(query).all(): the first limit rows of the product
query_rows(rels, dist, tie, limit, distance_range, visited_relationships, visited_entities) ==
    first_rows(alias_rows(rels, dist, tie, limit, distance_range)
                   \X base_rows(rels, visited_relationships, visited_entities),
               dist, tie, limit)

\* short_circuit with a strict comparison
short_circuit_strict(n, rank_n) == n < rank_n

\* if len(relationships) <= rank_n: everything is returned unranked
short_circuit(n, rank_n) == n <= rank_n

\* ranked_relationships[:rank_n] after the stable sort by descending score
top_ranked(rows, score, dist, tie, rank_n) ==
    { x \in rows :
        Cardinality({ y \in rows :
                        \/ score[y[1]] > score[x[1]]
                        \/ /\ score[y[1]] = score[x[1]]
                           /\ row_before(dist, tie, y, x) }) < rank_n }

\* both endpoints of every relationship of a set
endpoints(rels, S) ==
    { rels[k].source_entity_id : k \in S } \cup { rels[k].target_entity_id : k \in S }

\* the relationships of a set of rows
relationships_of(rows) == { x[1] : x \in rows }

\* the scoring loop and the sort: the rows are scored with the degrees fetched
\* and the first rank_n by score are returned
rank_relationships(rels, dist, rows, call, rank_n, with_degree, tie, s1, fetched, score) ==
    LET top == relationships_of(top_ranked(rows, score, dist, tie, rank_n))
    IN  [raised |-> FALSE, relationships |-> top,
         entities |-> endpoints(rels, top),
         ses |-> IF with_degree THEN fetched.ses ELSE s1,
         call |-> call, rows |-> Cardinality(rows),
         found |-> relationships_of(rows),
         degree_fetch |-> with_degree,
         swallowed |-> with_degree /\ fetched.swallowed,
         scored |-> TRUE, score |-> score, dist |-> dist]

\* the scores of the rows found, from the degrees fetched when with_degree
score_relationships(rels, dist, rows, call, rank_n, with_degree, tie, s1, fetched) ==
    rank_relationships(rels, dist, rows, call, rank_n, with_degree, tie, s1, fetched,
        [k \in relationships_of(rows) |->
            final_score(rels, k, dist[k],
                        IF with_degree THEN fetched.degrees ELSE << >>,
                        with_degree)])

\* what follows session.execute(query).all(): the short circuit, or the degree
\* fetch and the ranking
search_result(rels, dist, rows, call, rank_n, with_degree, tie, s1, fail) ==
    IF s1.failed
    THEN [raised |-> TRUE, relationships |-> {}, entities |-> {}, ses |-> s1,
          call |-> call, rows |-> 0, found |-> {}, degree_fetch |-> FALSE,
          swallowed |-> FALSE, scored |-> FALSE, score |-> << >>,
          dist |-> dist]
    ELSE IF short_circuit(Cardinality(rows), rank_n)
    THEN [raised |-> FALSE, relationships |-> relationships_of(rows),
          entities |-> endpoints(rels, relationships_of(rows)), ses |-> s1,
          call |-> call, rows |-> Cardinality(rows),
          found |-> relationships_of(rows),
          degree_fetch |-> FALSE, swallowed |-> FALSE, scored |-> FALSE,
          score |-> << >>, dist |-> dist]
    ELSE score_relationships(rels, dist, rows, call, rank_n, with_degree, tie, s1,
             fetch_entity_degrees(rels, endpoints(rels, relationships_of(rows)),
                                  s1, fail))

\* the query of search_relationships_weight on the distances dist
search_by_distance(rels, dist, visited_relationships, visited_entities, distance_range, limit, rank_n, with_degree, tie, ses, fail) ==
    search_result(rels, dist,
        query_rows(rels, dist, tie, limit, distance_range,
                   visited_relationships, visited_entities),
        [visited_relationships |-> visited_relationships,
         visited_entities |-> visited_entities,
         distance_range |-> distance_range, rank_n |-> rank_n],
        rank_n, with_degree, tie, execute(ses, fail), fail)

\* search_relationships_weight.  The result tells whether the call raised, the
\* relationship and entity sets returned, the session afterwards, and what the
\* call did: the number of rows the query returned, whether the degrees were
\* fetched, whether a failure of that fetch was swallowed, whether the rows were
\* scored, and the scores.
search_relationships_weight(rels, embedding, visited_relationships, visited_entities, distance_range, limit, rank_n, with_degree, tie, ses, fail) ==
    search_by_distance(rels,
        [k \in 1..Len(rels) |->
            cosine_distance_pct(rels[k].description_vec, embedding)],
        visited_relationships, visited_entities, distance_range, limit, rank_n,
        with_degree, tie, ses, fail)

\* fetch_similar_entities with the entity type filter left out
fetch_similar_entities_any_type(ents, embedding, top_k, entity_type, tie) ==
    { i \in 1..Len(ents) :
        Cardinality({ j \in 1..Len(ents) :
            \/ cosine_distance_less(ents[j].description_vec,
                                    ents[i].description_vec, embedding)
            \/ /\ ~cosine_distance_less(ents[i].description_vec,
                                        ents[j].description_vec, embedding)
               /\ tie_before(tie, j, i) }) < top_k }

\* fetch_similar_entities: the top_k entities of a type nearest to the embedding
fetch_similar_entities(ents, embedding, top_k, entity_type, tie) ==
    LET M == { i \in 1..Len(ents) : ents[i].entity_type = entity_type }
    IN  { i \in M :
            Cardinality({ j \in M :
                \/ cosine_distance_less(ents[j].description_vec,
                                        ents[i].description_vec, embedding)
                \/ /\ ~cosine_distance_less(ents[i].description_vec,
                                            ents[j].description_vec, embedding)
                   /\ tie_before(tie, j, i) }) < top_k }

----------------------------------------------------------------------------
(* retrieve_with_weight *)

\* get_query_embedding(query, embed_model): a fixed vector per query text
get_query_embedding(query) == <<5, 0>>

\* DEFAULT_RANGE_SEARCH_CONFIG: the distance ranges in percent and the search
\* ratios in tenths; the first bucket has ratio 1
RangeSearchConfig ==
    << [lo |-> 0, hi |-> 25, ratio |-> 10], [lo |-> 25, hi |-> 35, ratio |-> 7],
       [lo |-> 35, hi |-> 45, ratio |-> 2], [lo |-> 45, hi |-> 55, ratio |-> 1] >>

\* search_number_each_depth = 10 and top_k = 2 of the synopsis fetch
SearchNumberEachDepth == 10
SynopsisTopK == 2

\* int((search_ratio + progress) * search_number_each_depth) as binary64
\* computes it, ratio and progress in tenths: 0.1 + (0.7 + 0.2) is
\* 0.9999999999999999, whose tenfold truncates to 9
tenfold_of_sum(search_ratio, progress) ==
    IF search_ratio = 1 /\ progress = 9 THEN 9 ELSE search_ratio + progress

\* expected_number before it is capped at the remaining number
expected_number(search_ratio, progress, actual_number) ==
    IF progress > actual_number
    THEN tenfold_of_sum(search_ratio, progress) - actual_number
    ELSE search_ratio

\* the stored chunks: id, text, document_id and meta, the texts written as
\* their characters
Chunks ==
    { [id |-> [type |-> "str", text |-> "c1"], text |-> <<"o", "n", "e">>,
       document_id |-> <<"d", "1">>, meta |-> <<"m", "1">>],
      [id |-> [type |-> "int", text |-> "7"], text |-> <<"t", "w", "o">>,
       document_id |-> <<"d", "2">>, meta |-> <<"m", "2">>] }

\* related_doc_ids: the values of the key "doc_id" of the relationships' meta
related_doc_ids(rels, S) ==
    { rels[k].doc_id : k \in { j \in S : rels[j].doc_id # AbsentKey } }

\* the chunk dictionaries of the no-query mode
chunks_of_scan(ids) ==
    { [text |-> c.text, link |-> c.document_id, meta |-> c.meta] :
        c \in { d \in Chunks : d.id \in ids } }

\* the chunk dictionaries of the query mode: session.scalars keeps the first
\* column of each row, the text, and c[0], c[1], c[2] index its characters
chunks_of_query(ids) ==
    { [text |-> <<c.text[1]>>, link |-> <<c.text[2]>>, meta |-> <<c.text[3]>>] :
        c \in { d \in Chunks : d.id \in ids } }

\* the entity dictionary emitted for row i
emit_entity(ents, i, include_meta) ==
    [id |-> i, name |-> ents[i].name, description |-> ents[i].description,
     meta |-> IF include_meta THEN ents[i].meta ELSE "None",
     entity_type |-> ents[i].entity_type]

\* rag_description with source and target exchanged
rag_description_reversed(ents, r) ==
    ents[r.target_entity_id].name \o " -> " \o r.description \o " -> "
        \o ents[r.source_entity_id].name

\* f"{r.source_entity.name} -> {r.description} -> {r.target_entity.name}"
rag_description(ents, r) ==
    ents[r.source_entity_id].name \o " -> " \o r.description \o " -> "
        \o ents[r.target_entity_id].name

\* the relationship dictionary emitted for row k
emit_relationship(ents, rels, k) ==
    [id |-> k, source_entity_id |-> rels[k].source_entity_id,
     target_entity_id |-> rels[k].target_entity_id,
     description |-> rels[k].description,
     rag_description |-> rag_description(ents, rels[k]),
     chunk_id |-> rels[k].chunk_id, doc_id |-> rels[k].doc_id,
     weight |-> rels[k].weight]

\* the no-query mode when only the query text is tested
no_query_mode_text_only(query, embedding) == query = ""

\* if not embedding and not query: None and the empty string are "", None and
\* the empty list are << >>
no_query_mode(query, embedding) == embedding = << >> /\ query = ""

\* the scan returning only the relationships of non-negative weight
scan_relationships_non_negative(rels) ==
    { k \in 1..Len(rels) : rels[k].weight >= 0 }

\* session.query(DBRelationship).all()
scan_relationships(rels) == 1..Len(rels)

\* the result of a retrieve_with_weight call that raised
Raised(ses, calls) ==
    [raised |-> TRUE, mode |-> "query", entities |-> {}, relationships |-> {},
     chunks |-> {}, synopsis |-> {}, calls |-> calls, statements |-> ses.n,
     swallowed |-> FALSE]

\* the no-query mode: the whole graph
retrieve_all(ents, rels, include_meta, with_chunks, fail) ==
    LET s1 == execute(NewSession, fail)
        s2 == execute(s1, fail)
        ids == related_doc_ids(rels, scan_relationships(rels))
        s3 == IF with_chunks /\ ids # {} THEN execute(s2, fail) ELSE s2
    IN  IF s3.failed
        THEN [Raised(s3, << >>) EXCEPT !.mode = "scan"]
        ELSE [raised |-> FALSE, mode |-> "scan",
              entities |-> { emit_entity(ents, i, include_meta) : i \in 1..Len(ents) },
              relationships |-> { emit_relationship(ents, rels, k) :
                                    k \in scan_relationships(rels) },
              chunks |-> IF with_chunks THEN chunks_of_scan(ids) ELSE {},
              synopsis |-> {}, calls |-> << >>, statements |-> s3.n,
              swallowed |-> FALSE]

\* the record kept of a scorer call: its result, the hop and the search_ratio
\* of its bucket (hop 0 is the seed call), and progress and actual_number when
\* it was issued
call_record(r, hop, search_ratio, progress, actual_number) ==
    [hop |-> hop, search_ratio |-> search_ratio, progress |-> progress,
     actual_number |-> actual_number]
        @@ [r EXCEPT !.ses = r.ses.n]

\* the state of the traversal: the accumulated and the visited sets, the
\* counters of the running hop, the session, and the scorer calls made
Frontier(r) ==
    [all_relationships |-> r.relationships, all_entities |-> r.entities,
     visited_relationships |-> r.relationships, visited_entities |-> r.entities,
     actual_number |-> 0, progress |-> 0, hop |-> 0,
     ses |-> r.ses, raised |-> r.raised,
     calls |-> << call_record(r, 0, 10, 0, 0) >>]

\* accumulate keeping only the entities of the last scorer call
accumulate_last_entities(st, search_config, r) ==
    [all_relationships |-> st.all_relationships \cup r.relationships,
     all_entities |-> r.entities,
     visited_relationships |-> st.visited_relationships \cup r.relationships,
     visited_entities |-> st.visited_entities \cup r.entities,
     actual_number |-> st.actual_number + Cardinality(r.relationships),
     progress |-> IF search_config.ratio # 10
                  THEN st.progress + search_config.ratio
                  ELSE st.progress,
     hop |-> st.hop,
     ses |-> r.ses, raised |-> r.raised,
     calls |-> Append(st.calls,
                      call_record(r, st.hop, search_config.ratio, st.progress,
                                  st.actual_number))]

\* the sets and counters after a bucket's scorer call returned r
accumulate(st, search_config, r) ==
    [all_relationships |-> st.all_relationships \cup r.relationships,
     all_entities |-> st.all_entities \cup r.entities,
     visited_relationships |-> st.visited_relationships \cup r.relationships,
     visited_entities |-> st.visited_entities \cup r.entities,
     actual_number |-> st.actual_number + Cardinality(r.relationships),
     progress |-> IF search_config.ratio # 10
                  THEN st.progress + search_config.ratio
                  ELSE st.progress,
     hop |-> st.hop,
     ses |-> r.ses, raised |-> r.raised,
     calls |-> Append(st.calls,
                      call_record(r, st.hop, search_config.ratio, st.progress,
                                  st.actual_number))]

\* bucket_rank_n without the cap at the remaining number
bucket_rank_n_uncapped(search_config, st) ==
    IF st.progress > st.actual_number
    THEN (IF search_config.ratio = 1 /\ st.progress = 9 THEN 9
          ELSE search_config.ratio + st.progress) - st.actual_number
    ELSE search_config.ratio

\* the rank_n of a bucket: expected_number capped at the remaining number
bucket_rank_n(search_config, st) ==
    LET remaining_number == SearchNumberEachDepth - st.actual_number
        expected == expected_number(search_config.ratio, st.progress,
                                    st.actual_number)
    IN  IF expected > remaining_number THEN remaining_number ELSE expected

\* the loop over DEFAULT_RANGE_SEARCH_CONFIG of one hop, from bucket i on
RECURSIVE search_buckets(_, _, _, _, _, _, _)
search_buckets(rels, embedding, with_degree, tie, fail, st, i) ==
    IF i > Len(RangeSearchConfig) \/ st.raised
    THEN st
    ELSE IF SearchNumberEachDepth - st.actual_number <= 0
    THEN st
    ELSE search_buckets(rels, embedding, with_degree, tie, fail,
            accumulate(st, RangeSearchConfig[i],
                search_relationships_weight(
                    rels, embedding, st.visited_relationships, st.visited_entities,
                    [lo |-> RangeSearchConfig[i].lo, hi |-> RangeSearchConfig[i].hi],
                    DefaultLimit, bucket_rank_n(RangeSearchConfig[i], st),
                    with_degree, tie, st.ses, fail)),
            i + 1)

\* the number of hops when the loop runs depth times
expansion_hops_one_more(depth) == depth

\* for _ in range(depth - 1)
expansion_hops(depth) == depth - 1

\* the expansion hops: h more hops from the state st
RECURSIVE expand(_, _, _, _, _, _, _)
expand(rels, embedding, with_degree, tie, fail, st, h) ==
    IF h <= 0 \/ st.raised
    THEN st
    ELSE expand(rels, embedding, with_degree, tie, fail,
                search_buckets(rels, embedding, with_degree, tie, fail,
                               [st EXCEPT !.actual_number = 0, !.progress = 0,
                                          !.hop = @ + 1], 1),
                h - 1)

\* what follows the depth loop: the synopsis fetch, the chunk fetch and the
\* dictionaries returned
emit_result(ents, rels, embedding, include_meta, with_chunks, tie, fail, st) ==
    LET s1 == execute(st.ses, fail)
        synopsis_entities ==
            fetch_similar_entities(ents, embedding, SynopsisTopK, "synopsis", tie)
        ids == related_doc_ids(rels, st.all_relationships)
        s2 == IF with_chunks THEN execute(execute(st.ses, fail), fail)
              ELSE execute(st.ses, fail)
    IN  IF st.raised THEN Raised(st.ses, st.calls)
        ELSE IF s1.failed THEN Raised(s1, st.calls)
        ELSE IF s2.failed THEN Raised(s2, st.calls)
        ELSE [raised |-> FALSE, mode |-> "query",
              entities |-> { emit_entity(ents, i, include_meta) :
                                i \in st.all_entities \cup synopsis_entities },
              relationships |-> { emit_relationship(ents, rels, k) :
                                    k \in st.all_relationships },
              chunks |-> IF with_chunks THEN chunks_of_query(ids) ELSE {},
              synopsis |-> synopsis_entities, calls |-> st.calls,
              statements |-> s2.n,
              swallowed |-> \E c \in 1..Len(st.calls) : st.calls[c].swallowed]

\* the query mode on the embedding searched with
retrieve_by_embedding(ents, rels, embedding, depth, include_meta, with_degree, with_chunks, tie, fail) ==
    emit_result(ents, rels, embedding, include_meta, with_chunks, tie, fail,
        expand(rels, embedding, with_degree, tie, fail,
               Frontier(search_relationships_weight(rels, embedding, {}, {},
                            FullRange, DefaultLimit, DefaultRankN, with_degree,
                            tie, NewSession, fail)),
               expansion_hops(depth)))

\* retrieve_with_weight.  fail is the number of the storage statement that
\* fails, 0 when none does.
retrieve_with_weight(ents, rels, query, embedding, depth, include_meta, with_degree, with_chunks, tie, fail) ==
    IF no_query_mode(query, embedding)
    THEN retrieve_all(ents, rels, include_meta, with_chunks, fail)
    ELSE retrieve_by_embedding(ents, rels,
             IF embedding = << >> THEN get_query_embedding(query) ELSE embedding,
             depth, include_meta, with_degree, with_chunks, tie, fail)

----------------------------------------------------------------------------
(* PgVectorAdaptor *)

\* columns given to the adaptor: table, column name, whether the column type is
\* a pgvector Vector, and its dimension (0 when the type has none)
EntityVec == [table |-> "entities", name |-> "description_vec",
              vector |-> TRUE, dim |-> 2]
RelationshipVec == [table |-> "relationships", name |-> "description_vec",
                    vector |-> TRUE, dim |-> 2]
UnsizedVec == [table |-> "chunks", name |-> "embedding", vector |-> TRUE, dim |-> 0]
TextColumn == [table |-> "entities", name |-> "name", vector |-> FALSE, dim |-> 0]
Columns == {EntityVec, RelationshipVec, UnsizedVec, TextColumn}

\* index_name = f"vec_idx_{column.name}"
index_name(column) == "vec_idx_" \o column.name

\* the row of pg_indexes of an index of that name on the column's table
index_row(column) == [tablename |-> column.table, indexname |-> index_name(column)]

\* the catalogs a run may start from: no index, or one created by a migration
Catalogs ==
    { {}, {index_row(EntityVec)}, {index_row(RelationshipVec)},
      {index_row(UnsizedVec)} }

\* has_vector_index after _check_vector_column: a row of pg_indexes with the
\* column's table and the index name
has_vector_index(catalog, column) ==
    \E r \in catalog : /\ r.tablename = column.table
                       /\ r.indexname = index_name(column)

\* leaving the connection block after a commit
close_connection_committed(catalog, created) == catalog \cup created

\* leaving "with self.engine.connect() as conn" without conn.commit(): the
\* connection's transaction is rolled back, and CREATE INDEX with it
close_connection(catalog, created) == catalog

\* create_vector_index with the skip_existing test made before the dimension
\* test
create_vector_index_skip_first(catalog, column, skip_existing) ==
    IF ~column.vector
    THEN [outcome |-> "not-vector", issued |-> FALSE, catalog |-> catalog]
    ELSE IF skip_existing /\ (\E r \in catalog : r.tablename = column.table)
    THEN [outcome |-> "skipped", issued |-> FALSE, catalog |-> catalog]
    ELSE IF column.dim = 0
    THEN [outcome |-> "no-dimension", issued |-> FALSE, catalog |-> catalog]
    ELSE [outcome |-> "executed", issued |-> TRUE, catalog |-> catalog]

\* create_vector_index.  outcome is "not-vector" or "no-dimension" (ValueError),
\* "skipped", "exists" (the statement raised: index names are unique in a
\* schema) or "executed"; issued tells whether CREATE INDEX was executed.
create_vector_index(catalog, column, skip_existing) ==
    IF ~column.vector
    THEN [outcome |-> "not-vector", issued |-> FALSE, catalog |-> catalog]
    ELSE IF column.dim = 0
    THEN [outcome |-> "no-dimension", issued |-> FALSE, catalog |-> catalog]
    ELSE IF skip_existing /\ has_vector_index(catalog, column)
    THEN [outcome |-> "skipped", issued |-> FALSE, catalog |-> catalog]
    ELSE IF \E r \in catalog : r.indexname = index_name(column)
    THEN [outcome |-> "exists", issued |-> TRUE, catalog |-> catalog]
    ELSE [outcome |-> "executed", issued |-> TRUE,
          catalog |-> close_connection(catalog, {index_row(column)})]

----------------------------------------------------------------------------
(* The stores that retrieval runs start from *)

\* entity rows: three Original entities and up to three Synopsis entities
GraphEntities(n) ==
    << new_row(Draft("X", "d1", "m1", "original")),
       new_row(Draft("Y", "d1", "m1", "original")),
       new_row(Draft("Z", "", PlaceholderMeta, "original")) >>
    \o SubSeq(<< new_row(Draft("X", "d1", "m1", "synopsis")),
                 new_row(Draft("X", "d2", "m1", "synopsis")),
                 new_row(Draft("X", "d3", "m1", "synopsis")) >>, 1, n)

\* a row of table relationships
Edge(source, target, description, weight, vec, chunk_id, doc_id) ==
    [source_entity_id |-> source, target_entity_id |-> target,
     description |-> description, chunk_id |-> chunk_id, doc_id |-> doc_id,
     weight |-> weight, description_vec |-> vec]

StrChunk == [type |-> "str", text |-> "c1"]
IntChunk == [type |-> "int", text |-> "7"]

\* relationship rows a graph is drawn from: at distance 0, 0.2, 0.2, 0.4, 0 and
\* 1.6 of the query "q1", the fifth of negative weight
EdgePool ==
    << Edge(1, 2, "r1", 1, <<5, 0>>, StrChunk, StrChunk),
       Edge(2, 3, "r2", 0, <<4, 3>>, StrChunk, AbsentKey),
       Edge(1, 3, "r3", 3, <<4, 0 - 3>>, IntChunk, IntChunk),
       Edge(3, 1, "r4", 0, <<3, 4>>, IntChunk, AbsentKey),
       Edge(2, 1, "r5", 0 - 1, <<5, 0>>, IntChunk, AbsentKey),
       Edge(3, 2, "r6", 2, <<0 - 3, 4>>, IntChunk, AbsentKey) >>

\* the sets of pool rows that make the relationship table of a run
EdgeSets ==
    { {}, {1}, {1, 2}, {1, 2, 3}, {2, 3, 4}, {5, 6}, {1, 2, 3, 4, 5, 6} }

\* the rows of the pool chosen by a set of positions, in the pool's order
edges_of(S) ==
    LET ids == SelectSeq([i \in 1..Len(EdgePool) |-> i], LAMBDA i : i \in S)
    IN  [j \in 1..Len(ids) |-> EdgePool[ids[j]]]

\* a store with more relationships than the default rank_n
DenseSize == 11
DenseEdges ==
    [k \in 1..DenseSize |->
        Edge((k % 3) + 1, ((k + 1) % 3) + 1, "r1", k % 4,
             << <<5, 0>>, <<4, 3>>, <<3, 4>>, <<4, 0 - 3>> >>[(k % 4) + 1],
             StrChunk, AbsentKey)]

\* a store that holds, for the smallest limit, as many relationships at
\* distance 0 of the query "q1" as the subquery keeps, and one farther away
CrowdedEdges ==
    [k \in 1..(SubqueryFactor + 1) |->
        Edge((k % 3) + 1, ((k + 1) % 3) + 1, "r1", 1,
             IF k <= SubqueryFactor THEN <<5, 0>> ELSE <<3, 4>>,
             StrChunk, AbsentKey)]

\* a store whose seed hop leaves out a relationship that an expansion hop
\* finds: ten heavy relationships X -> Y at distance 1 of the query "q1", which
\* no bucket covers, and a light one X -> Z at distance 0.4
RemoteEdges ==
    [k \in 1..(DefaultRankN + 1) |->
        IF k <= DefaultRankN
        THEN Edge(1, 2, "r1", 70, <<0, 5>>, StrChunk, AbsentKey)
        ELSE Edge(1, 3, "r2", 0, <<3, 4>>, StrChunk, AbsentKey)]

\* the inputs of retrieve_with_weight and search_relationships_weight
MaxDepth == 2
MaxFail == 5
QueryTexts == {"", "q1"}
Questions == { [query |-> "", embedding |-> << >>],
               [query |-> "q1", embedding |-> << >>],
               [query |-> "", embedding |-> <<4, 3>>] }
Visited == { [relationships |-> {}, entities |-> {}],
             [relationships |-> {}, entities |-> {2}],
             [relationships |-> {1}, entities |-> {1, 2}],
             [relationships |-> {1, 2}, entities |-> {3}] }
Ranges == { FullRange, [lo |-> 0, hi |-> 25], [lo |-> 35, hi |-> 45] }
Limits == {1, DefaultLimit}
RankNs == {1, 2, DefaultRankN}

NoOut == [op |-> "none"]
NoDdl == [op |-> "none", calls |-> 0, issued |-> [c \in Columns |-> 0],
          executed |-> FALSE]

----------------------------------------------------------------------------
(* Records of completed calls, read by the properties *)

NoDraft == Draft("", "", "", "")
NoChunk == [type |-> "", text |-> ""]
NoArg == [op |-> "none", entity |-> NoDraft, chunk_id |-> NoChunk]
NoStart == [ents |-> 0, rels |-> 0, had |-> 0]
NoRes == [w |-> "", entity |-> NoDraft, found |-> 0, row |-> NoRow, below |-> FALSE,
          asked |-> FALSE, outcome |-> "", how |-> "", ret |-> 0, ents0 |-> 0,
          named0 |-> 0, op |-> "none",
          merged |-> [description |-> "", metadata |-> ""]]
NoOp == [w |-> "", op |-> "none", entity |-> NoDraft, chunk_id |-> NoChunk,
         outcome |-> "", ret |-> 0, ents0 |-> 0, rels0 |-> 0, had0 |-> 0,
         ents1 |-> 0, rels1 |-> 0]

EmptyMap == [n \in Names |-> <<>>]

\* entity rows of a name, whatever their kind
named(ents, name) == { i \in 1..Len(ents) : ents[i].name = name }

\* committed relationship rows that carry exactly this chunk id in their meta
rows_of_chunk(rows, chunk_id) ==
    { k \in 1..Len(rows) : rows[k].chunk_id = chunk_id }

----------------------------------------------------------------------------
(* State machine *)

Idle == [w \in Workers |-> "idle"]

(* purge_datasource_related_resources of tasks/datasource.py *)

\* the documents table: document 1 of data source 1, document 2 of data source 2
Documents == { [id |-> 1, data_source_id |-> 1], [id |-> 2, data_source_id |-> 2] }

\* the data sources a purge is asked for; data source 3 has no document
DataSources == {1, 2, 3}

\* no purge has run
NoPurge ==
    [documents |-> Documents, pc |-> "idle", runs |-> 0, data_source_id |-> 0,
     document_ids |-> {}, orphaned_entity_ids |-> {}, outcome |-> "none"]

\* Step 1: select(Document.id).where(Document.data_source_id == data_source_id)
document_ids_of(documents, data_source_id) ==
    { d.id : d \in { x \in documents : x.data_source_id = data_source_id } }

\* Step 2: delete(Relationship).where(Relationship.document_id.in_(document_ids))
delete_relationships_of(rels, document_ids) ==
    SelectSeq(rels, LAMBDA r : r.document_id \notin document_ids)

\* Step 4: the entities that are an endpoint of a relationship of these documents
related_entities_ids(rels, document_ids) ==
    { rels[k].source_entity_id : k \in { j \in 1..Len(rels) :
                                            rels[j].document_id \in document_ids } }
    \cup { rels[k].target_entity_id : k \in { j \in 1..Len(rels) :
                                            rels[j].document_id \in document_ids } }

\* Step 5: the relationships whose document_id is no id of table documents; a
\* NULL document_id makes the NOT IN test NULL, so the row is not selected
delete_orphaned_relationships(rels, documents) ==
    SelectSeq(rels, LAMBDA r : \/ r.document_id = NoDocument
                               \/ r.document_id \in { d.id : d \in documents })

\* the entities some committed relationship references
referenced(rels) ==
    { rels[k].source_entity_id : k \in 1..Len(rels) }
    \cup { rels[k].target_entity_id : k \in 1..Len(rels) }

\* Step 6, the select: the entities of the whole table that no relationship
\* has as source or target
orphaned_entity_ids(ents, rels) ==
    { i \in 1..Len(ents) : ents[i] # NoRow /\ i \notin referenced(rels) }

\* delete(Entity).where(Entity.id.in_(ids)): the ids of the other rows stay
delete_entities(ents, ids) ==
    [i \in 1..Len(ents) |-> IF i \in ids THEN NoRow ELSE ents[i]]

\* the foreign keys of relationships on entities.id refuse the delete of a
\* referenced entity
delete_refused(rels, ids) == ids \cap referenced(rels) # {}

----------------------------------------------------------------------------
(* The indexing tasks of rag_build.py *)

\* @celery_app.task(bind=True, max_retries=3, default_retry_delay=60)
max_retries == 3

\* DocIndexTaskStatus and KgIndexStatus
Statuses == {"not_started", "pending", "running", "completed", "failed"}

\* the statuses in which a task goes on to index
Processable == {"pending", "not_started", "running", "failed"}

\* a task message: the task and the self.request.retries of the run it starts
Message(task, retries) == [task |-> task, retries |-> retries]
Messages == { Message(t, n) : t \in {"document", "chunk"}, n \in 0..max_retries }

\* no message is queued
NoMessages == [m \in Messages |-> 0]

\* no run of a task has completed
NoRun ==
    [task |-> "none", retries |-> 0, status0 |-> "", status1 |-> "",
     outcome |-> "none", reached_llm |-> FALSE, set_running |-> FALSE,
     built |-> FALSE, sent |-> 0]

\* the rows the tasks read (the data source and its build_kg_index flag, the
\* document, its chunk), their index_status, the queued messages, the number
\* of runs of each task that went past the early returns, and the last run
NoTasks ==
    [data_source |-> TRUE, build_kg_index |-> TRUE, document |-> TRUE,
     has_chunks |-> FALSE,
     status |-> [document |-> "not_started", chunk |-> "not_started"],
     queue |-> NoMessages, runs |-> [document |-> 0, chunk |-> 0],
     last |-> NoRun]

\* what one run of a task did: the committed status it leaves, the messages
\* self.retry sent, how it ended, and what it went through
Ran(status, sent, outcome, reached_llm, set_running, built) ==
    [status |-> status, sent |-> sent, outcome |-> outcome,
     reached_llm |-> reached_llm, set_running |-> set_running, built |-> built]

\* the handler `except Exception` of both tasks: status is the committed
\* index_status, exists whether session.get finds the row, sent the messages
\* this run has sent already.  self.retry sends the message of the next run
\* and raises Retry.
on_exception(status, exists, retries, sent, set_running) ==
    IF retries >= max_retries
    THEN Ran(IF exists THEN "failed" ELSE status, sent, "max-retries", TRUE,
             set_running, FALSE)
    ELSE Ran(IF exists /\ status # "running" THEN "pending" ELSE status,
             sent + 1, "retry", TRUE, set_running, FALSE)

\* the handler `except ValueError` around get_llm_by_data_source; what it
\* raises (MaxRetriesExceededError, or the Retry of self.retry) is raised
\* inside the outer try and reaches the handler `except Exception`
on_llm_error(status, retries) ==
    IF retries >= max_retries
    THEN on_exception("failed", TRUE, retries, 0, FALSE)
    ELSE on_exception(status, TRUE, retries, 1, FALSE)

\* one run of build_kg_index_from_chunk with self.request.retries = retries;
\* llm is what get_llm_by_data_source does, build what the KG build does
build_kg_index_from_chunk(c, retries, llm, build) ==
    IF ~c.data_source THEN Ran(c.status.chunk, 0, "returned", FALSE, FALSE, FALSE)
    ELSE IF ~c.has_chunks
    THEN Ran(c.status.chunk, 0, "returned", FALSE, FALSE, FALSE)
    ELSE IF c.status.chunk \notin Processable
    THEN Ran(c.status.chunk, 0, "returned", FALSE, FALSE, FALSE)
    ELSE IF llm = "ValueError" THEN on_llm_error(c.status.chunk, retries)
    ELSE IF build = "raises" THEN on_exception("running", TRUE, retries, 0, TRUE)
    ELSE Ran("completed", 0, "completed", TRUE, TRUE, TRUE)

\* one run of build_vector_index_from_document with self.request.retries =
\* retries; a document that has chunks is left as it is after RUNNING is set
build_vector_index_from_document(c, retries, llm, build) ==
    IF ~c.data_source
    THEN Ran(c.status.document, 0, "returned", FALSE, FALSE, FALSE)
    ELSE IF ~c.document
    THEN Ran(c.status.document, 0, "returned", FALSE, FALSE, FALSE)
    ELSE IF c.status.document \notin Processable
    THEN Ran(c.status.document, 0, "returned", FALSE, FALSE, FALSE)
    ELSE IF llm = "ValueError" THEN on_llm_error(c.status.document, retries)
    ELSE IF c.has_chunks
    THEN Ran("running", 0, "already-indexed", TRUE, TRUE, FALSE)
    ELSE IF build = "raises" THEN on_exception("running", TRUE, retries, 0, TRUE)
    ELSE Ran("completed", 0, "completed", TRUE, TRUE, TRUE)

\* the queue after the run of message m that sent `sent` messages of the next
\* run and `delayed` build_kg_index_from_chunk messages
queue_after(queue, m, sent, delayed) ==
    [x \in Messages |->
        queue[x] - (IF x = m THEN 1 ELSE 0)
                 + (IF x = Message(m.task, m.retries + 1) THEN sent ELSE 0)
                 + (IF x = Message("chunk", 0) THEN delayed ELSE 0)]

\* the state after the run r of message m: the status is committed, the
\* messages of self.retry are queued and, after a document build, the
\* document has its chunk and, with build_kg_index, the chunk's task is queued
after_run(c, m, r) ==
    LET chunked == m.task = "document" /\ r.outcome = "completed"
    IN  [data_source |-> c.data_source, build_kg_index |-> c.build_kg_index,
         document |-> c.document,
         has_chunks |-> c.has_chunks \/ chunked,
         status |-> [document |-> IF m.task = "document" THEN r.status
                                  ELSE c.status.document,
                     chunk |-> IF m.task = "chunk" THEN r.status
                               ELSE c.status.chunk],
         queue |-> queue_after(c.queue, m, r.sent,
                               IF chunked /\ c.build_kg_index THEN 1 ELSE 0),
         runs |-> [c.runs EXCEPT ![m.task] = IF r.reached_llm THEN @ + 1 ELSE @],
         last |-> [task |-> m.task, retries |-> m.retries,
                   status0 |-> c.status[m.task], status1 |-> r.status,
                   outcome |-> r.outcome, reached_llm |-> r.reached_llm,
                   set_running |-> r.set_running, built |-> r.built,
                   sent |-> r.sent]]

----------------------------------------------------------------------------
\* no call is running: ws are the workers of the run, n the calls they may start
InitCalls(ws, n) ==
    /\ active = ws
    /\ budget = n
    /\ pc = Idle
    /\ arg = [w \in Workers |-> NoArg]
    /\ idx = [w \in Workers |-> 0]
    /\ entities_name_map = [w \in Workers |-> EmptyMap]
    /\ src_ent = [w \in Workers |-> 0]
    /\ pending = [w \in Workers |-> <<>>]
    /\ result = [w \in Workers |-> NotQueried]
    /\ start = [w \in Workers |-> NoStart]
    /\ prevRes = NoRes
    /\ lastRes = NoRes
    /\ prevOp = NoOp
    /\ lastOp = NoOp

\* an empty store
InitWith(ws, n) ==
    /\ entities = <<>>
    /\ relationships = <<>>
    /\ InitCalls(ws, n)

\* the standard batch, no retrieval and no index call made
NoAux ==
    /\ batch = StandardBatch
    /\ out = NoOut
    /\ pg_indexes = {}
    /\ ddl = NoDdl
    /\ celery = NoTasks
    /\ purge = NoPurge

\* a single writer
Init == InitWith({"w1"}, MaxCalls) /\ NoAux
\* two concurrent ingest workers, one top-level call for each
InitConc == InitWith(Workers, Cardinality(Workers)) /\ NoAux

\* the candidate of the get_or_create_entity invocation worker w is in
current_entity(w) ==
    CASE pc[w] = "resolve" -> arg[w].entity
      [] pc[w] = "entities" ->
            Draft(BatchEntities[idx[w]].name, BatchEntities[idx[w]].description,
                  BatchEntities[idx[w]].meta, "original")
      [] pc[w] = "source" ->
            Draft(BatchRelationships[idx[w]].source_entity,
                  BatchRelationships[idx[w]].source_entity_description,
                  PlaceholderMeta, "original")
      [] OTHER ->
            Draft(BatchRelationships[idx[w]].target_entity,
                  BatchRelationships[idx[w]].target_entity_description,
                  PlaceholderMeta, "original")

\* the top-level call of worker w ends: it returned, raised, or the worker died
Finish(w, outcome, ret, ents, rels) ==
    /\ pc' = [pc EXCEPT ![w] = "idle"]
    /\ prevOp' = lastOp
    /\ lastOp' = [w |-> w, op |-> arg[w].op, entity |-> arg[w].entity,
                  chunk_id |-> arg[w].chunk_id, outcome |-> outcome, ret |-> ret,
                  ents0 |-> start[w].ents, rels0 |-> start[w].rels,
                  had0 |-> start[w].had, ents1 |-> Len(ents), rels1 |-> Len(rels)]
    /\ arg' = [arg EXCEPT ![w] = NoArg]
    /\ idx' = [idx EXCEPT ![w] = 0]
    /\ entities_name_map' = [entities_name_map EXCEPT ![w] = EmptyMap]
    /\ src_ent' = [src_ent EXCEPT ![w] = 0]
    /\ result' = [result EXCEPT ![w] = NotQueried]
    /\ start' = [start EXCEPT ![w] = NoStart]

Begin(w, a, first) ==
    /\ budget' = budget - 1
    /\ pc' = [pc EXCEPT ![w] = first]
    /\ arg' = [arg EXCEPT ![w] = a]
    /\ start' = [start EXCEPT ![w] =
                    [ents |-> Len(entities), rels |-> Len(relationships),
                     had |-> Cardinality(rows_of_chunk(relationships, a.chunk_id))]]
    /\ UNCHANGED <<entities, relationships, active, idx, entities_name_map, src_ent,
                   pending, result, prevRes, lastRes, prevOp, lastOp>>

\* a caller invokes get_or_create_entity(entity) directly
StartResolve(w, entity) ==
    /\ w \in active /\ pc[w] = "idle" /\ budget > 0
    /\ Begin(w, [op |-> "resolve", entity |-> entity, chunk_id |-> NoChunk], "resolve")
    /\ UNCHANGED aux

\* a caller invokes save(chunk_id, entities_df, relationships_df): with an
\* empty frame the call returns at once, otherwise the guard query is next
StartSave(w, chunk_id) ==
    /\ w \in active /\ pc[w] = "idle" /\ budget > 0
    /\ IF frames_empty(BatchEntities, BatchRelationships)
       THEN /\ budget' = budget - 1
            /\ prevOp' = lastOp
            /\ lastOp' = [w |-> w, op |-> "save", entity |-> NoDraft,
                          chunk_id |-> chunk_id, outcome |-> "empty", ret |-> 0,
                          ents0 |-> Len(entities), rels0 |-> Len(relationships),
                          had0 |-> Cardinality(rows_of_chunk(relationships, chunk_id)),
                          ents1 |-> Len(entities), rels1 |-> Len(relationships)]
            /\ UNCHANGED <<entities, relationships, active, pc, arg, idx,
                           entities_name_map, src_ent, pending, result, start,
                           prevRes, lastRes>>
       ELSE Begin(w, [op |-> "save", entity |-> NoDraft, chunk_id |-> chunk_id],
                  "guard")
    /\ UNCHANGED aux

\* save: the guard query and what follows it
SaveGuard(w) ==
    /\ pc[w] = "guard"
    /\ UNCHANGED aux
    /\ IF chunk_already_saved(visible(relationships, pending[w]), arg[w].chunk_id)
       THEN /\ Finish(w, "skipped", 0, entities, relationships)
            /\ UNCHANGED <<entities, relationships, active, budget, pending,
                           prevRes, lastRes>>
       ELSE /\ pc' = [pc EXCEPT ![w] =
                    IF Len(BatchEntities) > 0 THEN "entities"
                    ELSE IF Len(BatchRelationships) > 0 THEN "source"
                    ELSE "commit"]
            /\ idx' = [idx EXCEPT ![w] = 1]
            /\ entities_name_map' = [entities_name_map EXCEPT ![w] = EmptyMap]
            /\ UNCHANGED <<entities, relationships, active, budget, arg, src_ent,
                           pending, result, start, prevRes, lastRes, prevOp, lastOp>>

\* the endpoint of the current relationship row, by its name and description
endpoint(w) ==
    IF pc[w] = "source"
    THEN [name |-> BatchRelationships[idx[w]].source_entity,
          description |-> BatchRelationships[idx[w]].source_entity_description]
    ELSE [name |-> BatchRelationships[idx[w]].target_entity,
          description |-> BatchRelationships[idx[w]].target_entity_description]

in_batch(w) ==
    find_in_batch(entities, entities_name_map[w], endpoint(w).name,
                  endpoint(w).description)

\* what save does once the endpoint of pc[w] is bound to entity e, the tables
\* being ents and rels and the session's pending rows staged
Bound(w, e, ents, rels, staged) ==
    IF pc[w] = "source"
    THEN /\ src_ent' = [src_ent EXCEPT ![w] = e]
         /\ pc' = [pc EXCEPT ![w] = "target"]
         /\ pending' = [pending EXCEPT ![w] = staged]
         /\ result' = [result EXCEPT ![w] = NotQueried]
         /\ UNCHANGED <<idx, entities_name_map, arg, start, prevOp, lastOp>>
    ELSE /\ pending' = [pending EXCEPT ![w] =
                Append(staged, create_relationship(src_ent[w], e,
                                   BatchRelationships[idx[w]], arg[w].chunk_id))]
         /\ src_ent' = [src_ent EXCEPT ![w] = 0]
         /\ idx' = [idx EXCEPT ![w] =
                IF idx[w] < Len(BatchRelationships) THEN idx[w] + 1 ELSE 0]
         /\ pc' = [pc EXCEPT ![w] =
                IF idx[w] < Len(BatchRelationships) THEN "source" ELSE "commit"]
         /\ result' = [result EXCEPT ![w] = NotQueried]
         /\ UNCHANGED <<entities_name_map, arg, start, prevOp, lastOp>>

\* _find_or_create_entity_for_relation returns an entity resolved in this batch
BindFromBatch(w) ==
    /\ pc[w] \in {"source", "target"}
    /\ result[w] = NotQueried
    /\ in_batch(w) # 0
    /\ Bound(w, in_batch(w), entities, relationships, pending[w])
    /\ UNCHANGED <<entities, relationships, active, budget, prevRes, lastRes>>
    /\ UNCHANGED aux

\* get_or_create_entity: the lookup query
Lookup(w) ==
    /\ pc[w] \in {"resolve", "entities", "source", "target"}
    /\ result[w] = NotQueried
    /\ pc[w] \in {"source", "target"} => in_batch(w) = 0
    /\ LET entity == current_entity(w)
       IN  \/ /\ nearest(entities, entity) = {}
              /\ result' = [result EXCEPT ![w] = NoResult]
           \/ \E i \in nearest(entities, entity) :
                 result' = [result EXCEPT ![w] = query_result(entities, entity, i)]
    /\ UNCHANGED <<entities, relationships, active, budget, pc, arg, idx,
                   entities_name_map, src_ent, pending, start, prevRes, lastRes,
                   prevOp, lastOp>>
    /\ UNCHANGED aux

\* get_or_create_entity after the lookup, and the caller's next statement
Act(w, outcome) ==
    /\ pc[w] \in {"resolve", "entities", "source", "target"}
    /\ result[w] # NotQueried
    /\ LET entity == current_entity(w)
           r == get_or_create_entity(entities, entity, result[w], outcome)
           rels == IF r.commits THEN commit(relationships, pending[w])
                   ELSE relationships
           staged == IF r.commits THEN <<>> ELSE pending[w]
       IN  /\ outcome \in (IF asks_merge(result[w], entity)
                           THEN MergeOutcomes ELSE {NotAsked})
           /\ entities' = r.ents
           /\ relationships' = rels
           /\ prevRes' = lastRes
           /\ lastRes' = [w |-> w, entity |-> entity, found |-> result[w].id,
                          row |-> result[w].row, below |-> result[w].below,
                          asked |-> asks_merge(result[w], entity),
                          outcome |-> outcome.kind, how |-> r.how, ret |-> r.ret,
                          ents0 |-> Len(entities),
                          named0 |-> Cardinality(named(entities, entity.name)),
                          op |-> arg[w].op,
                          merged |-> [description |-> outcome.description,
                                      metadata |-> outcome.metadata]]
           /\ IF r.how = "raise"
              THEN /\ Finish(w, "raised", 0, r.ents, rels)
                   /\ pending' = [pending EXCEPT ![w] = <<>>]
              ELSE IF pc[w] = "resolve"
              THEN /\ Finish(w, "returned", r.ret, r.ents, rels)
                   /\ pending' = [pending EXCEPT ![w] = staged]
              ELSE IF pc[w] = "entities"
              THEN /\ entities_name_map' = [entities_name_map EXCEPT
                          ![w][entity.name] = Append(@, r.ret)]
                   /\ idx' = [idx EXCEPT ![w] =
                          IF idx[w] < Len(BatchEntities) THEN idx[w] + 1 ELSE 1]
                   /\ pc' = [pc EXCEPT ![w] =
                          IF idx[w] < Len(BatchEntities) THEN "entities"
                          ELSE IF Len(BatchRelationships) > 0 THEN "source"
                          ELSE "commit"]
                   /\ pending' = [pending EXCEPT ![w] = staged]
                   /\ result' = [result EXCEPT ![w] = NotQueried]
                   /\ UNCHANGED <<src_ent, arg, start, prevOp, lastOp>>
              ELSE Bound(w, r.ret, r.ents, rels, staged)
    /\ UNCHANGED <<active, budget>>
    /\ UNCHANGED aux

\* save: the final self._session.commit()
CommitSave(w) ==
    /\ pc[w] = "commit"
    /\ relationships' = commit(relationships, pending[w])
    /\ pending' = [pending EXCEPT ![w] = <<>>]
    /\ Finish(w, "saved", 0, entities, commit(relationships, pending[w]))
    /\ UNCHANGED <<entities, active, budget, prevRes, lastRes>>
    /\ UNCHANGED aux

\* the worker dies inside save: its session is gone, pending rows are lost
Crash(w) ==
    /\ arg[w].op = "save"
    /\ pc[w] # "idle"
    /\ pending' = [pending EXCEPT ![w] = <<>>]
    /\ Finish(w, "crashed", 0, entities, relationships)
    /\ UNCHANGED <<entities, relationships, active, budget, prevRes, lastRes>>
    /\ UNCHANGED aux

Next ==
    \/ \E w \in Workers, entity \in Drafts : StartResolve(w, entity)
    \/ \E w \in Workers, chunk_id \in ChunkIds : StartSave(w, chunk_id)
    \/ \E w \in Workers : SaveGuard(w)
    \/ \E w \in Workers : BindFromBatch(w)
    \/ \E w \in Workers : Lookup(w)
    \/ \E w \in Workers, outcome \in MergeOutcomes \cup {NotAsked} : Act(w, outcome)
    \/ \E w \in Workers : CommitSave(w)
    \/ \E w \in Workers : Crash(w)

Spec == Init /\ [][Next]_vars
SpecConc == InitConc /\ [][Next]_vars

\* saves of batches with and without an empty frame, on an empty store and on
\* a store that already has a relationship of the chunk "7"
InitBatch ==
    /\ \/ entities = <<>> /\ relationships = <<>>
       \/ entities = GraphEntities(0) /\ relationships = edges_of({3})
    /\ InitCalls({"w1"}, BatchCalls)
    /\ batch \in {StandardBatch, NoEntitiesBatch, NoRelationshipsBatch, EmptyBatch}
    /\ out = NoOut
    /\ pg_indexes = {}
    /\ ddl = NoDdl
    /\ celery = NoTasks
    /\ purge = NoPurge

SpecBatch == InitBatch /\ [][Next]_vars

----------------------------------------------------------------------------
(* Retrieval and index maintenance *)

\* a caller invokes retrieve_with_weight on the committed tables; retrieval
\* writes nothing, so one call is followed in each run
Retrieve(query, embedding, depth, include_meta, with_degree, with_chunks, tie, fail) ==
    /\ out = NoOut
    /\ \A w \in Workers : pc[w] = "idle"
    /\ out' = [op |-> "retrieve", query |-> query, embedding |-> embedding,
               depth |-> depth, include_meta |-> include_meta,
               with_degree |-> with_degree, with_chunks |-> with_chunks,
               tie |-> tie, fail |-> fail,
               n_ents |-> Len(entities), n_rels |-> Len(relationships),
               res |-> retrieve_with_weight(entities, relationships, query,
                           embedding, depth, include_meta, with_degree,
                           with_chunks, tie, fail)]
    /\ UNCHANGED <<entities, relationships, active, budget, pc, arg, idx,
                   entities_name_map, src_ent, pending, result, start, prevRes,
                   lastRes, prevOp, lastOp, batch, pg_indexes, ddl, celery, purge>>

\* a caller invokes search_relationships_weight on the committed tables
Search(embedding, visited, distance_range, limit, rank_n, with_degree, tie, fail) ==
    /\ out = NoOut
    /\ \A w \in Workers : pc[w] = "idle"
    /\ out' = [op |-> "search", embedding |-> embedding, visited |-> visited,
               distance_range |-> distance_range, limit |-> limit,
               rank_n |-> rank_n, with_degree |-> with_degree, tie |-> tie,
               fail |-> fail,
               n_ents |-> Len(entities), n_rels |-> Len(relationships),
               res |-> search_relationships_weight(relationships, embedding,
                           visited.relationships, visited.entities,
                           distance_range, limit, rank_n, with_degree, tie,
                           NewSession, fail)]
    /\ UNCHANGED <<entities, relationships, active, budget, pc, arg, idx,
                   entities_name_map, src_ent, pending, result, start, prevRes,
                   lastRes, prevOp, lastOp, batch, pg_indexes, ddl, celery, purge>>

\* provisioning calls create_vector_index(column, skip_existing=...)
CreateVectorIndex(column, skip_existing) ==
    /\ ddl.calls < MaxIndexCalls
    /\ LET r == create_vector_index(pg_indexes, column, skip_existing)
       IN  /\ pg_indexes' = r.catalog
           /\ ddl' = [op |-> "create", calls |-> ddl.calls + 1,
                      issued |-> [ddl.issued EXCEPT ![column] =
                                    IF r.issued /\ skip_existing THEN @ + 1 ELSE @],
                      executed |-> r.issued,
                      column |-> column, skip_existing |-> skip_existing,
                      outcome |-> r.outcome, catalog0 |-> pg_indexes]
    /\ UNCHANGED <<entities, relationships, active, budget, pc, arg, idx,
                   entities_name_map, src_ent, pending, result, start, prevRes,
                   lastRes, prevOp, lastOp, batch, out, celery, purge>>

\* provisioning calls has_vector_index(column)
HasVectorIndex(column) ==
    /\ ddl.calls < MaxIndexCalls
    /\ ddl' = [op |-> "has", calls |-> ddl.calls + 1, issued |-> ddl.issued,
               executed |-> FALSE,
               column |-> column, skip_existing |-> FALSE,
               outcome |-> IF ~column.vector THEN "not-vector"
                           ELSE IF has_vector_index(pg_indexes, column) THEN "true"
                           ELSE "false",
               catalog0 |-> pg_indexes]
    /\ UNCHANGED <<entities, relationships, active, budget, pc, arg, idx,
                   entities_name_map, src_ent, pending, result, start, prevRes,
                   lastRes, prevOp, lastOp, batch, out, pg_indexes, celery, purge>>

\* retrieval on a stored graph: no ingest runs
InitRetrieve ==
    /\ \/ \E n \in {0, 1, 3}, S \in EdgeSets :
             /\ entities = GraphEntities(n)
             /\ relationships = edges_of(S)
       \/ /\ entities = GraphEntities(0)
          /\ relationships \in {DenseEdges, CrowdedEdges}
       \/ /\ entities = GraphEntities(1)
          /\ relationships = RemoteEdges
    /\ InitCalls({}, 0)
    /\ NoAux

NextRetrieve ==
    \/ \E q \in Questions, depth \in 1..MaxDepth,
          include_meta \in BOOLEAN, with_degree \in BOOLEAN,
          with_chunks \in BOOLEAN, tie \in TieOrders, fail \in 0..MaxFail :
          Retrieve(q.query, q.embedding, depth, include_meta, with_degree,
                   with_chunks, tie, fail)
    \/ \E visited \in Visited, distance_range \in Ranges, limit \in Limits,
          rank_n \in RankNs, with_degree \in BOOLEAN, tie \in TieOrders,
          fail \in 0..2 :
          Search(get_query_embedding("q1"), visited, distance_range, limit,
                 rank_n, with_degree, tie, fail)

SpecRetrieve == InitRetrieve /\ [][NextRetrieve]_vars

\* the ingest-then-retrieve scenario: an empty store, a batch of two entities
\* and one relationship, and retrieval between the calls of the writer
InitScenario ==
    /\ InitWith({"w1"}, ScenarioCalls)
    /\ batch \in { ScenarioBatch(d) : d \in {AbsentKey} \cup ChunkIds }
    /\ out = NoOut
    /\ pg_indexes = {}
    /\ ddl = NoDdl
    /\ celery = NoTasks
    /\ purge = NoPurge

NextScenario ==
    \/ Next
    \/ \E query \in QueryTexts, depth \in 1..MaxDepth, with_chunks \in BOOLEAN :
          Retrieve(query, << >>, depth, FALSE, FALSE, with_chunks, "asc", 0)

SpecScenario == InitScenario /\ [][NextScenario]_vars

\* provisioning of the vector indexes
InitIndex ==
    /\ InitWith({}, 0)
    /\ batch = StandardBatch
    /\ out = NoOut
    /\ pg_indexes \in Catalogs
    /\ ddl = NoDdl
    /\ celery = NoTasks
    /\ purge = NoPurge

NextIndex ==
    \/ \E column \in Columns, skip_existing \in BOOLEAN :
          CreateVectorIndex(column, skip_existing)
    \/ \E column \in Columns : HasVectorIndex(column)

SpecIndex == InitIndex /\ [][NextIndex]_vars

----------------------------------------------------------------------------
(* The indexing tasks and the purge task *)

\* the variables of the ingest calls
ingest == <<entities, relationships, active, budget, pc, arg, idx,
            entities_name_map, src_ent, pending, result, start, prevRes,
            lastRes, prevOp, lastOp>>

\* a worker takes the message m and runs build_vector_index_from_document
RunDocument(m, llm, build) ==
    /\ m.task = "document"
    /\ celery.queue[m] > 0
    /\ celery' = after_run(celery, m,
                    build_vector_index_from_document(celery, m.retries, llm, build))
    /\ UNCHANGED <<ingest, batch, out, pg_indexes, ddl, purge>>

\* a worker takes the message m and runs build_kg_index_from_chunk
RunChunk(m, llm, build) ==
    /\ m.task = "chunk"
    /\ celery.queue[m] > 0
    /\ celery' = after_run(celery, m,
                    build_kg_index_from_chunk(celery, m.retries, llm, build))
    /\ UNCHANGED <<ingest, batch, out, pg_indexes, ddl, purge>>

\* one task has been delayed for a document or for its chunk; a document
\* without chunks has no chunk status
InitTasks ==
    /\ InitWith({}, 0)
    /\ batch = StandardBatch
    /\ out = NoOut
    /\ pg_indexes = {}
    /\ ddl = NoDdl
    /\ purge = NoPurge
    /\ \E data_source \in BOOLEAN, build_kg_index \in BOOLEAN, document \in BOOLEAN,
          has_chunks \in BOOLEAN, sd \in Statuses, sc \in Statuses,
          task \in {"document", "chunk"} :
          /\ ~has_chunks => sc = "not_started"
          /\ celery = [data_source |-> data_source,
                       build_kg_index |-> build_kg_index,
                       document |-> document, has_chunks |-> has_chunks,
                       status |-> [document |-> sd, chunk |-> sc],
                       queue |-> [NoMessages EXCEPT ![Message(task, 0)] = 1],
                       runs |-> [document |-> 0, chunk |-> 0],
                       last |-> NoRun]

NextTasks ==
    \/ \E m \in Messages, llm \in {"ok", "ValueError"}, build \in {"ok", "raises"} :
          RunDocument(m, llm, build)
    \/ \E m \in Messages, llm \in {"ok", "ValueError"}, build \in {"ok", "raises"} :
          RunChunk(m, llm, build)

\* a worker of the queue takes every message in the end
SpecTasks == InitTasks /\ [][NextTasks]_vars /\ WF_vars(NextTasks)

\* the entities the next statement of the save of worker w reads or has a
\* pending relationship row flushed for
touched(w) ==
    LET ends == { pending[w][k].source_entity_id : k \in 1..Len(pending[w]) }
                \cup { pending[w][k].target_entity_id : k \in 1..Len(pending[w]) }
        found == IF result[w].id > 0 THEN {result[w].id} ELSE {}
    IN  CASE pc[w] \in {"source", "target"} ->
                ends \cup found \cup ({src_ent[w]} \ {0})
                \cup { entities_name_map[w][endpoint(w).name][k] :
                         k \in 1..Len(entities_name_map[w][endpoint(w).name]) }
          [] pc[w] = "commit" -> ends
          [] OTHER -> found

\* the next statement of the save meets a deleted entity: the load of the
\* expired object finds no row, or the flush of a pending relationship
\* violates its foreign key
meets_deleted(w) == \E i \in touched(w) : entities[i] = NoRow

\* save raises on a missing endpoint; the session and its pending rows are lost
SaveFails(w) ==
    /\ arg[w].op = "save"
    /\ pc[w] # "idle"
    /\ meets_deleted(w)
    /\ pending' = [pending EXCEPT ![w] = <<>>]
    /\ Finish(w, "missing-endpoint", 0, entities, relationships)
    /\ UNCHANGED <<entities, relationships, active, budget, prevRes, lastRes>>
    /\ UNCHANGED aux

\* a purge step that leaves the ingest calls and the other tasks alone
PurgeTo(p) ==
    /\ purge' = p
    /\ UNCHANGED <<active, budget, pc, arg, idx, entities_name_map, src_ent,
                   pending, result, start, prevRes, lastRes, prevOp, lastOp,
                   batch, out, pg_indexes, ddl, celery>>

\* the purge task raises: the statements after the failing one do not run
purge_raised == [purge EXCEPT !.pc = "idle", !.outcome = "raised"]

\* purge_datasource_related_resources(data_source_id) starts: Step 1
PurgeStart(data_source_id) ==
    /\ purge.pc = "idle"
    /\ purge.runs < MaxPurges
    /\ LET ids == document_ids_of(purge.documents, data_source_id)
       IN  PurgeTo([purge EXCEPT !.pc = IF ids # {} THEN "step2" ELSE "step5",
                                 !.runs = @ + 1,
                                 !.data_source_id = data_source_id,
                                 !.document_ids = ids,
                                 !.orphaned_entity_ids = {},
                                 !.outcome = "running"])
    /\ UNCHANGED <<entities, relationships>>

\* Step 2: the relationships of the documents are deleted and committed
PurgeRelationships ==
    /\ purge.pc = "step2"
    /\ relationships' = delete_relationships_of(relationships, purge.document_ids)
    /\ PurgeTo([purge EXCEPT !.pc = "step4"])
    /\ UNCHANGED entities

\* Steps 3 and 4: the chunks are deleted; the entities of relationships of
\* the documents committed since Step 2 are selected and their delete is issued
PurgeRelatedEntities ==
    /\ purge.pc = "step4"
    /\ LET ids == related_entities_ids(relationships, purge.document_ids)
       IN  IF delete_refused(relationships, ids)
           THEN PurgeTo(purge_raised) /\ UNCHANGED entities
           ELSE /\ entities' = delete_entities(entities, ids)
                /\ PurgeTo([purge EXCEPT !.pc = "step5"])
    /\ UNCHANGED relationships

\* Step 5: the relationships of no document are deleted and committed
PurgeOrphanedRelationships ==
    /\ purge.pc = "step5"
    /\ relationships' = delete_orphaned_relationships(relationships, purge.documents)
    /\ PurgeTo([purge EXCEPT !.pc = "step6"])
    /\ UNCHANGED entities

\* Step 6, the select of the orphaned entities
PurgeSelectOrphanedEntities ==
    /\ purge.pc = "step6"
    /\ LET ids == orphaned_entity_ids(entities, relationships)
       IN  PurgeTo([purge EXCEPT !.pc = IF ids # {} THEN "step6-delete" ELSE "step7",
                                 !.orphaned_entity_ids = ids])
    /\ UNCHANGED <<entities, relationships>>

\* Step 6, the delete of the selected entities and its commit
PurgeDeleteOrphanedEntities ==
    /\ purge.pc = "step6-delete"
    /\ IF delete_refused(relationships, purge.orphaned_entity_ids)
       THEN PurgeTo(purge_raised) /\ UNCHANGED entities
       ELSE /\ entities' = delete_entities(entities, purge.orphaned_entity_ids)
            /\ PurgeTo([purge EXCEPT !.pc = "step7"])
    /\ UNCHANGED relationships

\* Steps 7 and 8: the images and the documents of the data source are deleted
PurgeDocuments ==
    /\ purge.pc = "step7"
    /\ PurgeTo([purge EXCEPT
                  !.pc = "idle", !.outcome = "purged",
                  !.documents = { d \in @ : d.data_source_id # purge.data_source_id }])
    /\ UNCHANGED <<entities, relationships>>

\* one ingest worker saving the standard batch while data sources are purged
InitPurge ==
    /\ InitWith({"w1"}, PurgeCalls)
    /\ NoAux

\* save goes on as long as its next statement meets no deleted entity
NextPurge ==
    \/ \E w \in Workers, chunk_id \in ChunkIds : StartSave(w, chunk_id)
    \/ \E w \in Workers : ~meets_deleted(w) /\ SaveGuard(w)
    \/ \E w \in Workers : ~meets_deleted(w) /\ BindFromBatch(w)
    \/ \E w \in Workers : ~meets_deleted(w) /\ Lookup(w)
    \/ \E w \in Workers, outcome \in MergeOutcomes \cup {NotAsked} :
          ~meets_deleted(w) /\ Act(w, outcome)
    \/ \E w \in Workers : ~meets_deleted(w) /\ CommitSave(w)
    \/ \E w \in Workers : SaveFails(w)
    \/ \E data_source_id \in DataSources : PurgeStart(data_source_id)
    \/ PurgeRelationships
    \/ PurgeRelatedEntities
    \/ PurgeOrphanedRelationships
    \/ PurgeSelectOrphanedEntities
    \/ PurgeDeleteOrphanedEntities
    \/ PurgeDocuments

SpecPurge == InitPurge /\ [][NextPurge]_vars

----------------------------------------------------------------------------
(* Properties *)

original(entity) == entity.kind = "original"

\* lastRes directly follows prevRes and has the same Original candidate, and
\* both invocations returned an entity
SameCandidateTwice ==
    /\ prevRes.op # "none"
    /\ lastRes.entity = prevRes.entity
    /\ original(lastRes.entity)
    /\ prevRes.how # "raise"
    /\ lastRes.how # "raise"

\* C1 as stated: from any reachable store state, two successive
\* get_or_create_entity calls with the same Original candidate return the same
\* id and the second creates no row.
C1_SameIdFromAnyState ==
    SameCandidateTwice =>
        /\ lastRes.ret = prevRes.ret
        /\ lastRes.how # "created"

\* C1 amended: when the store holds no entity of the candidate's name before the
\* first call, the first call creates a row, the second returns that row as a
\* true duplicate without creating or merging anything, and exactly one row of
\* that name exists afterwards.
C1_IdempotentDuplicate ==
    (SameCandidateTwice /\ prevRes.named0 = 0) =>
        /\ prevRes.how = "created"
        /\ lastRes.how = "duplicate"
        /\ lastRes.ret = prevRes.ret
        /\ ~lastRes.asked
        /\ Len(entities) = lastRes.ents0
        /\ Cardinality(named(entities, lastRes.entity.name)) = 1

C1_Witness ==
    /\ SameCandidateTwice
    /\ prevRes.named0 = 0
    /\ lastRes.how = "duplicate"

\* the last two top-level calls are saves of one chunk id, the first ran to
\* its final commit and the second ran to completion
SavedTwice ==
    /\ prevOp.op = "save"
    /\ lastOp.op = "save"
    /\ lastOp.chunk_id = prevOp.chunk_id
    /\ prevOp.outcome = "saved"
    /\ lastOp.outcome \in {"saved", "skipped"}

\* C2: the second of two successive completed saves of a chunk returns at the
\* guard and writes nothing, so the entity and relationship counts are those
\* after the first save.
C2_BatchIdempotent ==
    SavedTwice =>
        /\ lastOp.outcome = "skipped"
        /\ lastOp.ents1 = lastOp.ents0
        /\ lastOp.rels1 = lastOp.rels0

\* the merge program was called for an Original near-duplicate and answered
\* no merged entity
MergeDeclined == lastRes.asked /\ lastRes.outcome = "none"

\* C3 as stated: when the merge program declines, no entity row is created and
\* the entity table is unchanged.
C3_DeclineCreatesNothing ==
    MergeDeclined =>
        /\ lastRes.how # "created"
        /\ Len(entities) = lastRes.ents0

\* C3 amended: when the merge program declines, exactly one new row holding the
\* candidate is inserted and returned, and the near-duplicate row is unchanged.
C3_DeclineCreatesNewRow ==
    MergeDeclined =>
        /\ lastRes.how = "created"
        /\ Len(entities) = lastRes.ents0 + 1
        /\ lastRes.ret = Len(entities)
        /\ lastRes.ret # lastRes.found
        /\ entities[lastRes.ret].name = lastRes.entity.name
        /\ entities[lastRes.ret].description = lastRes.entity.description
        /\ entities[lastRes.ret].meta = lastRes.entity.metadata
        /\ entities[lastRes.found] = lastRes.row

C3_Witness == MergeDeclined /\ lastRes.how = "created"

\* rows i and j are Original rows of one name within the distance threshold
NearDuplicates(ents, i, j) ==
    /\ i # j
    /\ ents[i].name = ents[j].name
    /\ ents[i].entity_type = "original"
    /\ ents[j].entity_type = "original"
    /\ below_description_threshold(ents[i].description_vec, ents[j].description_vec)

\* C4 as stated: the store never holds two Original entities of one name whose
\* description embeddings are closer than the threshold.
C4_NoNearDuplicates ==
    \A i, j \in 1..Len(entities) : ~NearDuplicates(entities, i, j)

\* C4 amended: a single writer inserts an Original row within the threshold of
\* an existing Original row of the same name only after the merge program was
\* asked about the nearest match and answered no merged entity.
C4_NearDuplicateOnlyAfterDecline ==
    (/\ lastRes.how = "created"
     /\ original(lastRes.entity)
     /\ \E i \in 1..lastRes.ents0 : NearDuplicates(entities, i, lastRes.ret)) =>
        /\ lastRes.asked
        /\ lastRes.outcome = "none"

C4_Witness ==
    /\ lastRes.how = "created"
    /\ lastRes.asked
    /\ \E i \in 1..lastRes.ents0 : NearDuplicates(entities, i, lastRes.ret)

\* C5: an exception of the merge program is not raised to the caller of
\* get_or_create_entity, and save does not end with it.
C5_MergeFailureNotSurfaced ==
    /\ lastRes.outcome = "raise" => lastRes.how # "raise"
    /\ lastOp.outcome # "raised"

\* C6: both endpoints of every committed relationship are ids of entity rows.
C6_ReferentialIntegrity ==
    \A k \in 1..Len(relationships) :
        /\ relationships[k].source_entity_id \in 1..Len(entities)
        /\ relationships[k].target_entity_id \in 1..Len(entities)

\* relationships were committed by a save that then crashed
C6_Witness ==
    /\ lastOp.outcome = "crashed"
    /\ lastOp.rels1 > lastOp.rels0
    /\ Len(relationships) = lastOp.rels1

\* committed rows of a chunk id that hold candidate relationship k
rows_of_candidate(rows, chunk_id, k) ==
    { n \in rows_of_chunk(rows, chunk_id) :
        rows[n].description = BatchRelationships[k].relationship_desc }

\* C7: after a save of a not yet ingested chunk crashed and its retry ran to
\* completion, every candidate relationship of the batch is persisted exactly
\* once.
C7_RetryCompletesBatch ==
    (/\ prevOp.op = "save" /\ prevOp.outcome = "crashed" /\ prevOp.had0 = 0
     /\ lastOp.op = "save" /\ lastOp.chunk_id = prevOp.chunk_id
     /\ lastOp.outcome \in {"saved", "skipped"}
     /\ Len(relationships) = lastOp.rels1) =>
        \A k \in 1..Len(BatchRelationships) :
            Cardinality(rows_of_candidate(relationships, lastOp.chunk_id, k)) = 1

\* C8: while save is still resolving entities or endpoints, none of the
\* relationship rows it staged is committed.
C8_RelationshipsCommittedTogether ==
    \A w \in active :
        pc[w] \in {"entities", "source", "target"} =>
            Len(relationships) = start[w].rels

\* C9: whenever two workers each ran save for one chunk id to its final commit,
\* every candidate relationship of the batch is persisted at least twice.
C9_BothSavesPersist ==
    (/\ prevOp.op = "save" /\ lastOp.op = "save"
     /\ prevOp.w # lastOp.w
     /\ lastOp.chunk_id = prevOp.chunk_id
     /\ prevOp.outcome = "saved" /\ lastOp.outcome = "saved") =>
        \A k \in 1..Len(BatchRelationships) :
            Cardinality(rows_of_candidate(relationships, lastOp.chunk_id, k)) >= 2

\* Both workers passed a guard that recognises the chunk id (a JSON number),
\* so neither had committed a relationship when the other checked, and the
\* chunk's rows are duplicated.
C9_Witness ==
    /\ prevOp.op = "save" /\ lastOp.op = "save"
    /\ prevOp.w # lastOp.w
    /\ lastOp.chunk_id = prevOp.chunk_id
    /\ lastOp.chunk_id.type = "int"
    /\ prevOp.outcome = "saved" /\ lastOp.outcome = "saved"
    /\ prevOp.had0 = 0 /\ lastOp.had0 = 0
    /\ Cardinality(rows_of_chunk(relationships, lastOp.chunk_id))
          = 2 * Len(BatchRelationships)

\* the nearest row of the candidate's name and kind is not below the threshold
NearestIsFar == lastRes.found > 0 /\ ~lastRes.below

\* C10: when the nearest stored entity of the candidate's name and kind is at a
\* distance not below the threshold, a new row is inserted and returned, with
\* an id other than the nearest row's, and the merge program is not called.
C10_Distinctness ==
    NearestIsFar =>
        /\ lastRes.how = "created"
        /\ ~lastRes.asked
        /\ lastRes.outcome = "not-asked"
        /\ lastRes.ret = lastRes.ents0 + 1
        /\ lastRes.ret # lastRes.found
        /\ Len(entities) = lastRes.ents0 + 1
        /\ entities[lastRes.ret].name = entities[lastRes.found].name
        /\ entities[lastRes.ret].description = lastRes.entity.description

C10_Witness == NearestIsFar /\ lastRes.how = "created"

\* out is a retrieve_with_weight call that took the query branch
InQueryMode == out.op = "retrieve" /\ out.res.mode = "query"

\* the ids of the dictionaries a retrieve call emitted
ids_of(S) == { d.id : d \in S }

\* C11: retrieve_with_weight with depth = 1 calls the scorer once, with empty
\* visited sets, the full distance range and the default rank_n, makes no
\* bucket call, and returns exactly the relationships of that seed call.
C11_DepthOneIsSeedHop ==
    (InQueryMode /\ out.depth = 1) =>
        /\ Len(out.res.calls) = 1
        /\ out.res.calls[1].call =
              [visited_relationships |-> {}, visited_entities |-> {},
               distance_range |-> FullRange, rank_n |-> DefaultRankN]
        /\ ~out.res.raised =>
              ids_of(out.res.relationships) = out.res.calls[1].relationships

\* a depth-1 retrieval returned the seed relationships of a store that holds
\* more relationships than the seed hop returned
C11_Witness ==
    /\ InQueryMode /\ out.depth = 1 /\ ~out.res.raised
    /\ out.res.calls[1].relationships # {}
    /\ Cardinality(out.res.relationships) < Len(relationships)

\* C12: without query text and embedding, retrieve_with_weight returns one
\* entity per entity row and one relationship per relationship row, whatever
\* the depth, and does not call the scorer.
C12_NoQueryFullScan ==
    (/\ out.op = "retrieve" /\ out.query = "" /\ out.embedding = << >>
     /\ ~out.res.raised) =>
        /\ out.res.mode = "scan"
        /\ ids_of(out.res.entities) = 1..Len(entities)
        /\ Cardinality(out.res.entities) = Len(entities)
        /\ ids_of(out.res.relationships) = 1..Len(relationships)
        /\ Cardinality(out.res.relationships) = Len(relationships)
        /\ out.res.calls = << >>

\* a full scan at depth 2 of a store that holds a relationship of negative
\* weight and one farther than 1 from every query
C12_Witness ==
    /\ out.op = "retrieve" /\ out.query = "" /\ out.embedding = << >>
    /\ out.depth = 2 /\ ~out.res.raised
    /\ Cardinality(out.res.relationships) = Len(EdgePool)
    /\ Cardinality(out.res.entities) > 3

\* the first call of the run was a save on the empty store that ran to its
\* final commit, and the retrieve call saw the tables it left
RetrievedAfterFirstSave ==
    /\ out.op = "retrieve" /\ ~out.res.raised
    /\ prevOp.op = "none"
    /\ lastOp.op = "save" /\ lastOp.outcome = "saved"
    /\ lastOp.ents0 = 0 /\ lastOp.rels0 = 0
    /\ out.n_ents = lastOp.ents1 /\ out.n_rels = lastOp.rels1

\* C13: after the batch with entities X and Y and the relationship
\* X -uses-> Y is saved on an empty store, retrieve_with_weight with a query
\* and depth = 1 returns X and Y among the entities and exactly one
\* relationship, whose rag_description is "X -> uses -> Y".
C13_IngestThenRetrieve ==
    (RetrievedAfterFirstSave /\ out.res.mode = "query" /\ out.depth = 1) =>
        /\ {"X", "Y"} \subseteq { e.name : e \in out.res.entities }
        /\ Cardinality(out.res.relationships) = 1
        /\ \A r \in out.res.relationships : r.rag_description = "X -> uses -> Y"

C13_Witness ==
    /\ RetrievedAfterFirstSave /\ out.res.mode = "query" /\ out.depth = 1
    /\ \E r \in out.res.relationships : r.description = "uses"

\* C14: when the query of search_relationships_weight returns at most rank_n
\* rows, the call returns exactly the relationships of those rows and both
\* endpoints of each, and neither fetches degrees nor computes a score, with
\* or without with_degree; the query is the only statement it executes.
C14_ShortCircuit ==
    (out.op = "search" /\ ~out.res.raised /\ out.res.rows <= out.rank_n) =>
        /\ out.res.relationships = out.res.found
        /\ out.res.entities = endpoints(relationships, out.res.found)
        /\ ~out.res.degree_fetch
        /\ ~out.res.scored
        /\ out.res.ses.n = 1

\* a search with with_degree whose query returned exactly rank_n rows
C14_Witness ==
    /\ out.op = "search" /\ ~out.res.raised /\ out.with_degree
    /\ out.res.rows = out.rank_n
    /\ Cardinality(out.res.relationships) = out.rank_n

\* the embedding a retrieve call searches with
embedding_of(o) ==
    IF o.embedding = << >> THEN get_query_embedding(o.query) ELSE o.embedding

\* C15: in query mode the entities returned contain min(2, number of Synopsis
\* rows) Synopsis entities such that no Synopsis row left out is nearer to the
\* query embedding, for every depth and whatever the scorer returned.
C15_SynopsisAugmentation ==
    (InQueryMode /\ ~out.res.raised) =>
        LET S == { i \in 1..Len(entities) : entities[i].entity_type = "synopsis" }
            q == embedding_of(out)
        IN  \E T \in SUBSET S :
                /\ Cardinality(T) = (IF Cardinality(S) < 2 THEN Cardinality(S) ELSE 2)
                /\ T \subseteq ids_of(out.res.entities)
                /\ \A i \in T, j \in S \ T :
                      ~cosine_distance_less(entities[j].description_vec,
                                            entities[i].description_vec, q)

\* a retrieval at depth 2 whose scorer calls returned no relationship, on a
\* store with three Synopsis entities
C15_Witness ==
    /\ InQueryMode /\ ~out.res.raised /\ out.depth = 2
    /\ out.res.relationships = {}
    /\ Cardinality({ e \in out.res.entities : e.entity_type = "synopsis" }) = 2
    /\ Cardinality({ i \in 1..Len(entities) :
                        entities[i].entity_type = "synopsis" }) = 3

\* C16: with with_chunks the chunks returned are the stored chunks whose ids are
\* the chunk ids of the relationships returned, so after a save for chunk C its
\* chunk is returned; without with_chunks no chunk is returned.
C16_ChunkResolution ==
    RetrievedAfterFirstSave =>
        out.res.chunks =
            IF out.with_chunks
            THEN chunks_of_scan({ r.chunk_id : r \in out.res.relationships })
            ELSE {}

\* C17: when a storage statement of retrieve_with_weight fails, the call raises
\* and returns nothing; a call that returns never carries degrees that a failed
\* fetch left at zero.
C17_RetrievalFailsAtomically ==
    out.op = "retrieve" =>
        /\ out.fail \in 1..out.res.statements =>
              /\ out.res.raised
              /\ out.res.entities = {} /\ out.res.relationships = {}
              /\ out.res.chunks = {}
        /\ ~out.res.raised => ~out.res.swallowed

\* the degree fetch of a scorer call failed and was swallowed there, and the
\* retrieve call raised at the next statement
C17_Witness ==
    /\ out.op = "retrieve" /\ out.res.raised
    /\ \E c \in 1..Len(out.res.calls) :
          out.res.calls[c].swallowed /\ ~out.res.calls[c].raised

\* C18: the endpoint Z of a relationship, absent from the batch's entities, is
\* resolved by get_or_create_entity with the placeholder metadata without
\* ending the save, and the relationship is then staged with the entity
\* returned as its target.
C18_UndeclaredEndpointResolved ==
    (lastRes.op = "save" /\ lastRes.entity.name = "Z") =>
        /\ lastRes.entity.metadata = PlaceholderMeta
        /\ lastRes.how # "raise"
        /\ lastOp.outcome = "saved" /\ Len(relationships) = lastOp.rels1 =>
              \E k \in 1..Len(relationships) :
                  /\ relationships[k].description = "r2"
                  /\ entities[relationships[k].target_entity_id].name = "Z"

\* the actual degrees in the relationship table
in_degree(e) == count_by(relationships, "target_entity_id", e)
out_degree(e) == count_by(relationships, "source_entity_id", e)

\* candidate a dominates candidate b: same distance, and a strictly higher
\* weight, source in-degree or target out-degree with the rest equal
dominates(a, b) ==
    LET ra == relationships[a]
        rb == relationships[b]
        ia == in_degree(ra.source_entity_id)
        ib == in_degree(rb.source_entity_id)
        oa == out_degree(ra.target_entity_id)
        ob == out_degree(rb.target_entity_id)
    IN  /\ out.res.dist[a] = out.res.dist[b]
        /\ \/ ra.weight > rb.weight /\ ia = ib /\ oa = ob
           \/ out.with_degree /\ ra.weight = rb.weight /\ ia > ib /\ oa = ob
           \/ out.with_degree /\ ra.weight = rb.weight /\ ia = ib /\ oa > ob

C20_IdempotentIndexCreation ==
    (/\ ddl.op = "create" /\ ddl.skip_existing
     /\ ddl.column.vector /\ ddl.column.dim > 0) =>
        /\ ddl.outcome \in {"executed", "skipped"}
        /\ ddl.issued[ddl.column] <= 1
        /\ has_vector_index(pg_indexes, ddl.column)

\* C21: create_vector_index on a column that is not a vector column or has no
\* dimension raises ValueError and executes no CREATE INDEX, with or without
\* skip_existing and whether or not the index exists; has_vector_index on a
\* column that is not a vector column raises.
C21_IndexConfigurationErrors ==
    /\ (ddl.op = "create" /\ (~ddl.column.vector \/ ddl.column.dim = 0)) =>
          /\ ddl.outcome = (IF ~ddl.column.vector THEN "not-vector"
                            ELSE "no-dimension")
          /\ ~ddl.executed
          /\ pg_indexes = ddl.catalog0
    /\ (ddl.op = "has" /\ ~ddl.column.vector) => ddl.outcome = "not-vector"

\* create_vector_index with skip_existing raised for a vector column without
\* dimension whose index exists
C21_Witness ==
    /\ ddl.op = "create" /\ ddl.skip_existing
    /\ ddl.column.vector /\ ddl.column.dim = 0
    /\ has_vector_index(ddl.catalog0, ddl.column)
    /\ ddl.outcome = "no-dimension"

\* the scorer calls a retrieve call made during its expansion hops
HopCalls == { c \in 1..Len(out.res.calls) : out.res.calls[c].hop >= 1 }

\* C22: a search_relationships_weight call with visited relationships returns
\* none of them, so no bucket call of retrieve_with_weight returns a
\* relationship that an earlier call of the same retrieval returned.
C22_VisitedRelationshipsExcluded ==
    /\ (out.op = "search" /\ out.visited.relationships # {}) =>
          out.res.relationships \cap out.visited.relationships = {}
    /\ out.op = "retrieve" =>
          \A c \in 1..Len(out.res.calls) :
              out.res.calls[c].relationships
                  \cap out.res.calls[c].call.visited_relationships = {}

\* the source entities of a set of relationships
sources(S) == { relationships[k].source_entity_id : k \in S }

\* C23: every relationship returned by a search_relationships_weight call with
\* visited entities has its source among them, so every relationship a bucket
\* call returns starts from an entity visited before the call.
C23_DirectedExpansion ==
    /\ (out.op = "search" /\ out.visited.entities # {}) =>
          sources(out.res.relationships) \subseteq out.visited.entities
    /\ out.op = "retrieve" =>
          \A c \in HopCalls :
              sources(out.res.calls[c].relationships)
                  \subseteq out.res.calls[c].call.visited_entities

\* C24: in every hop each bucket call is issued with a remaining number above
\* 0 and a rank_n between 0 and the remaining number, the relationships the
\* buckets of a hop return number at most search_number_each_depth together,
\* and a retrieval of depth d returns at most d times that many.
C24_PerHopBudget ==
    InQueryMode =>
        /\ \A c \in HopCalls :
              LET k == out.res.calls[c]
              IN  /\ k.actual_number < SearchNumberEachDepth
                  /\ k.call.rank_n >= 0
                  /\ k.call.rank_n <= SearchNumberEachDepth - k.actual_number
                  /\ k.actual_number + Cardinality(k.relationships)
                        <= SearchNumberEachDepth
        /\ Cardinality(out.res.relationships) <= SearchNumberEachDepth * out.depth

\* a hop whose second bucket was capped below its share and whose third bucket
\* used up the budget, so that the fourth bucket was not searched
C24_Witness ==
    /\ InQueryMode /\ ~out.res.raised
    /\ \E c \in HopCalls :
          /\ out.res.calls[c].search_ratio = 7
          /\ out.res.calls[c].call.rank_n < 7
    /\ LET k == out.res.calls[Len(out.res.calls)]
       IN  /\ k.hop >= 1 /\ k.search_ratio = 2
           /\ k.actual_number + Cardinality(k.relationships) = SearchNumberEachDepth

\* the sum of the search ratios, other than 1, of the buckets of the hop of
\* call c searched before it
progress_before(c) ==
    LET S == { b \in HopCalls : /\ b < c
                                /\ out.res.calls[b].hop = out.res.calls[c].hop
                                /\ out.res.calls[b].search_ratio # 10 }
        ratios == { out.res.calls[b].search_ratio : b \in S }
    IN  (IF 7 \in ratios THEN 7 ELSE 0) + (IF 2 \in ratios THEN 2 ELSE 0)
            + (IF 1 \in ratios THEN 1 ELSE 0)

\* the relationships the buckets of the hop of call c returned before it
actual_before(c) ==
    LET S == { b \in HopCalls : b < c /\ out.res.calls[b].hop = out.res.calls[c].hop }
    IN  IF S = {} THEN 0
        ELSE LET b == CHOOSE b \in S : \A m \in S : m <= b
             IN  out.res.calls[b].actual_number
                    + Cardinality(out.res.calls[b].relationships)

\* the smaller of two numbers
Min(a, b) == IF a < b THEN a ELSE b

in_range(d, distance_range) == d >= distance_range.lo /\ d <= distance_range.hi

\* C26: every relationship a search_relationships_weight call returns is at a
\* distance within the distance_range passed, the default range (0.0, 1.0)
\* included.
C26_DistanceRangeEnforced ==
    (out.op = "search" /\ ~out.res.raised) =>
        \A k \in out.res.relationships :
            in_range(out.res.dist[k], out.distance_range)

\* the stored relationships that satisfy every filter and the distance range
eligible ==
    { k \in 1..Len(relationships) :
        /\ relationships[k].weight >= 0
        /\ k \notin out.visited.relationships
        /\ out.visited.entities = {}
              \/ relationships[k].source_entity_id \in out.visited.entities
        /\ in_range(out.res.dist[k], out.distance_range) }

\* C27: when a stored relationship satisfies every filter and the distance
\* range and rank_n is at least 1, search_relationships_weight returns a
\* relationship, however many nearer relationships fail the filters.
C27_NearestEligibleCandidates ==
    (out.op = "search" /\ ~out.res.raised /\ out.rank_n >= 1 /\ eligible # {}) =>
        out.res.relationships # {}

\* C28: a search_relationships_weight call that found more than rank_n
\* relationships returns exactly rank_n of them, none of those left out has a
\* higher score than one returned, and the entities returned are the endpoints
\* of the relationships returned.
C28_TopRankNSelection ==
    (/\ out.op = "search" /\ ~out.res.raised
     /\ Cardinality(out.res.found) > out.rank_n) =>
        /\ out.res.scored
        /\ Cardinality(out.res.relationships) = out.rank_n
        /\ \A a \in out.res.found \ out.res.relationships :
              \A b \in out.res.relationships :
                  out.res.score[a] <= out.res.score[b]
        /\ out.res.entities = endpoints(relationships, out.res.relationships)

\* C29: a get_or_create_entity call whose merge program returns a merged
\* entity returns the id of the nearest match found, leaves the number of
\* entity rows, the row's name and entity_type and every other row unchanged,
\* and sets the row's description and meta to the merged values.
C29_MergeUpdatesInPlace ==
    [][ (/\ lastRes'.asked /\ lastRes'.outcome = "merged"
         /\ lastRes' # lastRes \/ entities' # entities) =>
            LET i == lastRes'.found
            IN  /\ lastRes'.how = "merged"
                /\ i \in nearest(entities, lastRes'.entity)
                /\ lastRes'.ret = i
                /\ Len(entities') = Len(entities)
                /\ entities'[i].name = entities[i].name
                /\ entities'[i].entity_type = entities[i].entity_type
                /\ entities'[i].description = lastRes'.merged.description
                /\ entities'[i].meta = lastRes'.merged.metadata
                /\ \A j \in 1..Len(entities) : j # i => entities'[j] = entities[j]
      ]_vars

\* a merge was accepted for the second of three rows, and the row now differs
\* from what it was in both description and meta
C29_Witness ==
    /\ lastRes.how = "merged" /\ lastRes.op = "resolve"
    /\ lastRes.ents0 >= 3 /\ lastRes.found = 2 /\ lastRes.ret = 2
    /\ Len(entities) = lastRes.ents0
    /\ entities[2].description = lastRes.merged.description
    /\ entities[2].meta = lastRes.merged.metadata
    /\ lastRes.row.description # lastRes.merged.description
    /\ lastRes.row.meta # lastRes.merged.metadata

\* C30: the row a get_or_create_entity call returns has the candidate's name
\* and entity_type, and so has the row it found; for a Synopsis candidate the
\* merge program is never called, and a Synopsis candidate within the
\* threshold of a stored Synopsis row that is not a true duplicate of it gets a
\* new row.
C30_KindScopedResolution ==
    lastRes.op # "none" =>
        /\ lastRes.found > 0 =>
              /\ lastRes.row.name = lastRes.entity.name
              /\ lastRes.row.entity_type = lastRes.entity.kind
        /\ lastRes.how # "raise" =>
              /\ lastRes.ret \in 1..Len(entities)
              /\ entities[lastRes.ret].name = lastRes.entity.name
              /\ entities[lastRes.ret].entity_type = lastRes.entity.kind
        /\ lastRes.entity.kind = "synopsis" =>
              /\ ~lastRes.asked /\ lastRes.outcome = "not-asked"
              /\ lastRes.how \in {"duplicate", "created"}
              /\ (/\ lastRes.found > 0 /\ lastRes.below
                   /\ ~is_true_duplicate(lastRes.row, lastRes.entity)) =>
                    /\ lastRes.how = "created"
                    /\ lastRes.ret = lastRes.ents0 + 1
                    /\ Len(entities) = lastRes.ents0 + 1
                    /\ entities[lastRes.ret] = new_row(lastRes.entity)

\* a Synopsis candidate named like stored Original rows found a stored
\* Synopsis row within the threshold, with another description, and got a new
\* row
C30_Witness ==
    /\ lastRes.op = "resolve" /\ lastRes.entity.kind = "synopsis"
    /\ lastRes.found > 0 /\ lastRes.below
    /\ lastRes.row.entity_type = "synopsis"
    /\ lastRes.row.description # lastRes.entity.description
    /\ lastRes.how = "created" /\ lastRes.ret = lastRes.ents0 + 1
    /\ \E i \in 1..lastRes.ents0 :
          /\ entities[i].name = lastRes.entity.name
          /\ entities[i].entity_type = "original"

\* the names declared as candidate entities of the batch
declared_names == { BatchEntities[i].name : i \in 1..Len(BatchEntities) }

\* C31: within a save, get_or_create_entity is never called with the
\* placeholder metadata for an endpoint whose name is declared as a candidate
\* entity of the batch, whatever the outcome of resolving the declaration.
C31_PlaceholderOnlyForUndeclared ==
    (lastRes.op = "save" /\ lastRes.entity.metadata = PlaceholderMeta) =>
        lastRes.entity.name \notin declared_names

\* the stored rows of candidate j of the batch saved for a chunk
rows_of_relationship(chunk_id, j) ==
    { k \in rows_of_chunk(relationships, chunk_id) :
        relationships[k].description = BatchRelationships[j].relationship_desc }

\* C32: when a save of a chunk that had no relationship row has run to its
\* final commit, every candidate relationship of the batch has exactly one
\* row, the chunk has no other row, and each row's document_id and chunk_id are
\* those of the candidate's metadata.
C32_OneRowPerCandidate ==
    (/\ lastOp.op = "save" /\ lastOp.outcome = "saved" /\ lastOp.had0 = 0
     /\ \A w \in active : pc[w] = "idle") =>
        /\ Cardinality(rows_of_chunk(relationships, lastOp.chunk_id))
              = Len(BatchRelationships)
        /\ \A j \in 1..Len(BatchRelationships) :
              /\ Cardinality(rows_of_relationship(lastOp.chunk_id, j)) = 1
              /\ \A k \in rows_of_relationship(lastOp.chunk_id, j) :
                    /\ relationships[k].chunk_id = lastOp.chunk_id
                    /\ relationships[k].document_id
                          = BatchRelationships[j].document_id

\* a save completed whose first relationship was committed early, by the
\* resolution of an endpoint of the second one, and both rows are stored
C32_Witness ==
    /\ lastOp.op = "save" /\ lastOp.outcome = "saved" /\ lastOp.had0 = 0
    /\ \A w \in active : pc[w] = "idle"
    /\ lastRes.op = "save" /\ lastRes.entity.metadata = PlaceholderMeta
    /\ lastRes.how = "created"
    /\ Cardinality(rows_of_chunk(relationships, lastOp.chunk_id)) = 2
    /\ \A k \in rows_of_chunk(relationships, lastOp.chunk_id) :
          relationships[k].document_id = 1

\* the endpoints of the relationships retrieve_with_weight returned
emitted_endpoints ==
    { r.source_entity_id : r \in out.res.relationships }
        \cup { r.target_entity_id : r \in out.res.relationships }

\* entity i is a Synopsis row with fewer than SynopsisTopK Synopsis rows
\* strictly nearer to the embedding searched with
among_nearest_synopsis(i) ==
    /\ entities[i].entity_type = "synopsis"
    /\ Cardinality({ j \in 1..Len(entities) :
            /\ entities[j].entity_type = "synopsis"
            /\ cosine_distance_less(entities[j].description_vec,
                                    entities[i].description_vec,
                                    embedding_of(out)) }) < SynopsisTopK

\* C33: in query mode the entities returned contain both endpoints of every
\* relationship returned, every entity returned is such an endpoint or one of
\* the nearest Synopsis entities, and from one scorer call to the next the
\* visited sets grow by what the call returned.
C33_ResultClosure ==
    InQueryMode =>
        /\ ~out.res.raised =>
              /\ emitted_endpoints \subseteq ids_of(out.res.entities)
              /\ \A i \in ids_of(out.res.entities) :
                    i \in emitted_endpoints \/ among_nearest_synopsis(i)
        /\ \A c \in 2..Len(out.res.calls) :
              LET a == out.res.calls[c - 1]
                  b == out.res.calls[c]
              IN  /\ b.call.visited_relationships
                        = a.call.visited_relationships \cup a.relationships
                  /\ b.call.visited_entities
                        = a.call.visited_entities \cup a.entities

\* a retrieval whose expansion hop returned a relationship the seed hop had
\* not, and which returned a Synopsis entity that is no endpoint
C33_Witness ==
    /\ InQueryMode /\ ~out.res.raised
    /\ \E c \in HopCalls :
          ~(out.res.calls[c].relationships
                \subseteq out.res.calls[c].call.visited_relationships)
    /\ \E i \in ids_of(out.res.entities) :
          i \notin emitted_endpoints /\ entities[i].entity_type = "synopsis"

\* C34: when two workers call get_or_create_entity with the same new Original
\* candidate, both calls beginning before any row is stored, one row is created
\* and both calls return its id.
C34_ConcurrentResolutionUnique ==
    (/\ prevOp.op = "resolve" /\ lastOp.op = "resolve"
     /\ prevOp.w # lastOp.w
     /\ prevOp.entity = lastOp.entity /\ lastOp.entity.kind = "original"
     /\ prevOp.outcome = "returned" /\ lastOp.outcome = "returned"
     /\ prevOp.ents0 = 0 /\ lastOp.ents0 = 0) =>
        /\ Len(entities) = 1
        /\ lastOp.ret = prevOp.ret

C39_EmptyBatchWritesNothing ==
    [][ (/\ Len(BatchEntities) = 0 \/ Len(BatchRelationships) = 0
         /\ \/ \E w \in active : arg[w].op = "save"
            \/ lastOp' # lastOp /\ lastOp'.op = "save") =>
            /\ entities' = entities
            /\ relationships' = relationships
            /\ pending' = pending
            /\ lastOp'.op = "save" /\ lastOp'.outcome = "empty"
            /\ pc' = pc
      ]_vars

\* a save with entities but no relationship returned at the first test for a
\* chunk whose relationship is stored, the store being what it was
C39_Witness ==
    /\ batch = NoRelationshipsBatch
    /\ lastOp.op = "save" /\ lastOp.outcome = "empty"
    /\ lastOp.had0 = 1
    /\ entities = GraphEntities(0) /\ relationships = edges_of({3})

\* the document's index_status is final
document_final == celery.status.document \in {"completed", "failed"}

\* C35: every run of build_vector_index_from_document that sets the
\* document's index_status to RUNNING is followed, in the end, by a state in
\* which the status is COMPLETED or FAILED; a document that already has
\* chunks does not stay RUNNING after the task has returned.
C35_DocumentNeverSticksRunning ==
    (celery.last.task = "document" /\ celery.last.set_running) ~> document_final

\* no message of build_kg_index_from_chunk is queued
chunk_queue_empty == \A m \in Messages : m.task = "chunk" => celery.queue[m] = 0

\* C36: for an existing chunk in a processable status the task
\* build_kg_index_from_chunk is attempted at most max_retries + 1 = 4 times and
\* then leaves the chunk COMPLETED or FAILED; a run sets COMPLETED only after
\* the KG build returned, a run on a COMPLETED chunk leaves it alone, and a
\* run sets FAILED only when its retries are exhausted.
C36_ChunkIndexingTerminates ==
    /\ celery.runs.chunk <= max_retries + 1
    /\ (celery.runs.chunk > 0 /\ chunk_queue_empty) =>
          celery.status.chunk \in {"completed", "failed"}
    /\ celery.last.task = "chunk" =>
          /\ (celery.last.status1 = "completed" /\ celery.last.status0 # "completed")
                => celery.last.built
          /\ celery.last.status0 = "completed" =>
                (celery.last.status1 = "completed" /\ ~celery.last.reached_llm)
          /\ (celery.last.status1 = "failed" /\ celery.last.status0 # "failed")
                => celery.last.retries >= max_retries

\* the entities the running save of worker w has resolved as endpoints
resolved_endpoints(w) ==
    UNION { { entities_name_map[w][n][k] : k \in 1..Len(entities_name_map[w][n]) } :
            n \in DOMAIN entities_name_map[w] }
    \cup ({src_ent[w]} \ {0})
    \cup { pending[w][k].source_entity_id : k \in 1..Len(pending[w]) }
    \cup { pending[w][k].target_entity_id : k \in 1..Len(pending[w]) }

\* C37: while a purge runs concurrently with a save, no entity the save has
\* resolved as an endpoint is deleted before the save's relationships are
\* committed, no committed relationship references a deleted entity, and no
\* save fails on a missing endpoint.
C37_PurgeKeepsEndpoints ==
    /\ \A w \in Workers :
          (arg[w].op = "save" /\ pc[w] # "idle") =>
             \A i \in resolved_endpoints(w) : entities[i] # NoRow
    /\ \A k \in 1..Len(relationships) :
          /\ entities[relationships[k].source_entity_id] # NoRow
          /\ entities[relationships[k].target_entity_id] # NoRow
    /\ lastOp.outcome # "missing-endpoint"

====
